---- MODULE Spec2Model ----
(***************************************************************************)
(* Purchase-order PDF -> CSV converters of the repository: src/app.py      *)
(* (v5.4), src/fixed_app.py (v5.3), src/app_v6.py (v6) and                  *)
(* src/pdf_to_csv.py.  The four scripts are four versions of the same      *)
(* Streamlit program; the variable `app` says which script is running.     *)
(*                                                                         *)
(* Text is a sequence of lines.  A line is a record that says which of the *)
(* programs' regular expressions match it and what their groups capture;   *)
(* captured numbers are sequences of one-character strings, so that the    *)
(* numeric cleaning is computed character by character as the code does.   *)
(***************************************************************************)
EXTENDS Integers, Sequences, FiniteSets, TLC

\* Python None / a missing DataFrame cell (pd.NA, NaN).
None == "None"

----------------------------------------------------------------------------
\* Characters and numbers

Digits == {"0", "1", "2", "3", "4", "5", "6", "7", "8", "9"}

IsDigit(c) == c \in Digits

DigitVal(c) ==
  CASE c = "0" -> 0 [] c = "1" -> 1 [] c = "2" -> 2 [] c = "3" -> 3
    [] c = "4" -> 4 [] c = "5" -> 5 [] c = "6" -> 6 [] c = "7" -> 7
    [] c = "8" -> 8 [] c = "9" -> 9

DigitChar(n) ==
  CASE n = 0 -> "0" [] n = 1 -> "1" [] n = 2 -> "2" [] n = 3 -> "3"
    [] n = 4 -> "4" [] n = 5 -> "5" [] n = 6 -> "6" [] n = 7 -> "7"
    [] n = 8 -> "8" [] n = 9 -> "9"

\* Characters matched by the regex class \s.
IsSpace(c) == c \in {" ", "\t", "\n"}

RECURSIVE Pow10(_)
Pow10(n) == IF n = 0 THEN 1 ELSE 10 * Pow10(n - 1)

\* s with the characters satisfying Drop removed (str.replace of a class).
RECURSIVE RemoveChars(_, _)
RemoveChars(s, drop) ==
  IF s = <<>> THEN <<>>
  ELSE IF Head(s) \in drop THEN RemoveChars(Tail(s), drop)
       ELSE <<Head(s)>> \o RemoveChars(Tail(s), drop)

\* Length of the longest prefix of s made of digits (\d* greedy).
RECURSIVE DigitRun(_)
DigitRun(s) ==
  IF s # <<>> /\ IsDigit(Head(s)) THEN 1 + DigitRun(Tail(s)) ELSE 0

\* The integer written by a sequence of digits.
RECURSIVE DigitsVal(_)
DigitsVal(s) ==
  IF s = <<>> THEN 0
  ELSE DigitsVal(SubSeq(s, 1, Len(s) - 1)) * 10 + DigitVal(s[Len(s)])

\* DataFrame cells: a string (a sequence of characters), a float, or a
\* missing value (NaN / pd.NA / None).
Str(s) == [t |-> "str", s |-> s]

NA == [t |-> "na"]

\* A float as mantissa m and decimal exponent e (value m / 10^e), in lowest
\* form: two floats are equal iff their records are.
RECURSIVE Canon(_, _)
Canon(m, e) ==
  IF e > 0 /\ m % 10 = 0 THEN Canon(m \div 10, e - 1)
  ELSE [t |-> "num", m |-> m, e |-> e]

\* float(token) / pd.to_numeric(token) of a token -?\d+(\.\d+)?
ParseToken(tok) ==
  LET neg   == tok # <<>> /\ Head(tok) = "-"
      body  == IF neg THEN Tail(tok) ELSE tok
      n     == DigitRun(body)
      ip    == SubSeq(body, 1, n)
      fp    == IF n < Len(body) THEN SubSeq(body, n + 2, Len(body)) ELSE <<>>
      mag   == DigitsVal(ip \o fp)
  IN  Canon(IF neg THEN 0 - mag ELSE mag, Len(fp))

\* First position of s where -?\d+(?:\.\d+)? matches, 0 when none does.
RECURSIVE TokenStart(_, _)
TokenStart(s, i) ==
  IF i > Len(s) THEN 0
  ELSE IF IsDigit(s[i]) \/ (s[i] = "-" /\ i < Len(s) /\ IsDigit(s[i + 1]))
       THEN i
       ELSE TokenStart(s, i + 1)

\* str.extract(r"(-?\d+(?:\.\d+)?)"): the first match; <<>> stands for
\* "no match" (a match is never empty).
ExtractToken(s) ==
  LET i    == TokenStart(s, 1)
      j    == IF s[i] = "-" THEN i + 1 ELSE i
      n    == DigitRun(SubSeq(s, j, Len(s)))
      k    == j + n
      frac == IF k < Len(s) /\ s[k] = "."
              THEN DigitRun(SubSeq(s, k + 1, Len(s))) ELSE 0
      last == IF frac > 0 THEN k + frac ELSE k - 1
  IN  IF i = 0 THEN <<>> ELSE SubSeq(s, i, last)

\* str(x) of a float: positional notation with at least one fractional
\* digit, or exponent notation when the value is below 1e-4 or not below
\* 1e16 (the repr of a Python float).
RECURSIVE NatDigits(_)
NatDigits(n) ==
  IF n < 10 THEN <<DigitChar(n)>>
  ELSE NatDigits(n \div 10) \o <<DigitChar(n % 10)>>

RECURSIVE PadLeft(_, _)
PadLeft(s, n) == IF Len(s) >= n THEN s ELSE PadLeft(<<"0">> \o s, n)

\* s without its trailing zeros.
RECURSIVE DropZeros(_)
DropZeros(s) ==
  IF s # <<>> /\ s[Len(s)] = "0" THEN DropZeros(SubSeq(s, 1, Len(s) - 1)) ELSE s

\* The position of the decimal point of m / 10^e after its first
\* significant digit: the value is 0.d1d2... * 10^DecPt.
DecPt(mag, e) == Len(NatDigits(mag)) - e

\* d[.ddd]e+XX or d[.ddd]e-XX, the exponent written with two digits at least.
SciStr(mag, e) ==
  LET digs == DropZeros(NatDigits(mag))
      x    == DecPt(mag, e) - 1
  IN  <<Head(digs)>>
      \o (IF Len(digs) > 1 THEN <<".">> \o Tail(digs) ELSE <<>>)
      \o <<"e", IF x < 0 THEN "-" ELSE "+">>
      \o PadLeft(NatDigits(IF x < 0 THEN 0 - x ELSE x), 2)

PosStr(mag, e) ==
  NatDigits(mag \div Pow10(e)) \o <<".">>
  \o (IF e = 0 THEN <<"0">> ELSE PadLeft(NatDigits(mag % Pow10(e)), e))

FloatStr(v) ==
  LET mag == IF v.m < 0 THEN 0 - v.m ELSE v.m
  IN  (IF v.m < 0 THEN <<"-">> ELSE <<>>)
      \o (IF mag # 0 /\ (DecPt(mag, v.e) < -3 \/ DecPt(mag, v.e) > 16)
          THEN SciStr(mag, v.e) ELSE PosStr(mag, v.e))

\* astype(str) of a cell: a string stays, a float is written, a missing
\* value is written "nan".
CellStr(x) ==
  CASE x.t = "str" -> x.s
    [] x.t = "num" -> FloatStr(x)
    [] x.t = "na"  -> <<"n", "a", "n">>

\* normalize_numeric with the commas left in the text.
normalize_numeric_KeepCommas(x) ==
  LET s   == RemoveChars(CellStr(x), {" ", "\t", "\n", "$"})
      tok == ExtractToken(s)
  IN  IF tok = <<>> THEN NA ELSE ParseToken(tok)

\* normalize_numeric giving zero for a text without a numeric token.
normalize_numeric_ZeroDefault(x) ==
  LET s   == RemoveChars(CellStr(x), {" ", "\t", "\n", ",", "$"})
      tok == ExtractToken(s)
  IN  IF tok = <<>> THEN Canon(0, 0) ELSE ParseToken(tok)

\* normalize_numeric applied to one cell: a float, or NA (NaN) when the
\* cleaned text holds no numeric token.
normalize_numeric(x) ==
  LET s   == RemoveChars(CellStr(x), {" ", "\t", "\n", ",", "$"})
      tok == ExtractToken(s)
  IN  IF tok = <<>> THEN NA ELSE ParseToken(tok)

\* Not computed yet.
Unset == [t |-> "unset"]

\* pandas comparison `value > 0`: False for NaN.
Positive(v) == v.t = "num" /\ v.m > 0

----------------------------------------------------------------------------
\* Text

\* Upper-casing of a word (str.upper); words without lower-case letters are
\* their own upper case.
Upper(w) ==
  CASE w = "Foodstuffs" -> "FOODSTUFFS" [] w = "North" -> "NORTH"
    [] w = "Island" -> "ISLAND" [] w = "Limited" -> "LIMITED"
    [] w = "Order" -> "ORDER" [] w = "Forecast" -> "FORECAST"
    [] w = "My" -> "MY" [] w = "Food" -> "FOOD" [] w = "Bag" -> "BAG"
    [] w = "Reg." -> "REG." [] w = "No:" -> "NO:"
    [] w = "Woolworths" -> "WOOLWORTHS" [] w = "woolworths" -> "WOOLWORTHS"
    [] w = "nz" -> "NZ" [] w = "order" -> "ORDER" [] w = "forecast" -> "FORECAST"
    [] w = "Purchase" -> "PURCHASE" [] w = "New" -> "NEW"
    [] w = "Hello" -> "HELLO"
    [] w = "Number" -> "NUMBER" [] w = "Date" -> "DATE" [] w = "of" -> "OF"
    [] w = "Delivery" -> "DELIVERY" [] w = "Deliver" -> "DELIVER"
    [] w = "To" -> "TO" [] w = "No" -> "NO" [] w = "Address" -> "ADDRESS"
    [] w = "Store" -> "STORE" [] w = "Instructions" -> "INSTRUCTIONS"
    [] OTHER -> w

UpperSeq(ws) == [i \in 1..Len(ws) |-> Upper(ws[i])]

\* The lines of a text.  "words" is a line of prose (banner, header); the
\* other kinds are the lines the item parsers' patterns recognise, with what
\* the patterns' groups capture.
Blank == [k |-> "blank"]

Words(ws) == [k |-> "words", toks |-> ws]

\* "1 123456 A1 Apples 10 EA 1 2.50 2.50 0.00 25.00"
FsRow(item, qty, price) == [k |-> "fs", item |-> item, qty |-> qty, price |-> price]

\* "LINE ST GTIN/TUN ITEM DESCRIPTION ITEM NO TU SFX TI x HI OM ORD QTY PRICE EXCL TAXES PLU"
WwHdr == [k |-> "wwhdr"]

\* "1 9334892005555 Ginger 734951 10.00 6x8 10 12 54.00": n7 and n8 are the
\* seventh and eighth fields
WwRow(item, n7, n8, price) ==
  [k |-> "ww", item |-> item, n7 |-> n7, n8 |-> n8, price |-> price]

\* "Order Totals" / "Total Value"
WwTot == [k |-> "wwtot"]

\* "Item No. QTY DESCRIPTION Delivery Date PRICE TOTAL"
MfbHdr == [k |-> "mfbhdr"]

\* "10014642  20  Oranges, 1kg  20/08/25  3.80  76.00": ten says whether the
\* item number is 10 followed by six or more digits
MfbRow(item, ten, qty, price) ==
  [k |-> "mfb", item |-> item, ten |-> ten, qty |-> qty, price |-> price]

\* "Total", "Balance Due", "Page 1"
MfbTot == [k |-> "mfbtot"]

\* text.strip() == "": no line holds anything but white space
IsBlankText(text) == \A i \in 1..Len(text) : text[i].k = "blank"

\* Number of (non-overlapping) occurrences of the word sequence kw in ws.
RECURSIVE CountIn(_, _)
CountIn(ws, kw) ==
  IF Len(ws) < Len(kw) THEN 0
  ELSE IF SubSeq(ws, 1, Len(kw)) = kw
       THEN 1 + CountIn(SubSeq(ws, Len(kw) + 1, Len(ws)), kw)
       ELSE CountIn(Tail(ws), kw)

\* text_u.count(k.upper())
RECURSIVE TextCount(_, _)
TextCount(text, kw) ==
  IF text = <<>> THEN 0
  ELSE (IF Head(text).k = "words"
        THEN CountIn(UpperSeq(Head(text).toks), UpperSeq(kw)) ELSE 0)
       + TextCount(Tail(text), kw)

\* kw.upper() in text.upper()
KwIn(text, kw) == TextCount(text, kw) > 0

----------------------------------------------------------------------------
\* Vendor profiles

Vendors == {"Foodstuffs_NI", "WWNZ", "MyFoodBag"}

\* VENDOR_PROFILES[v]["detect_keywords"] of app.py, fixed_app.py, app_v6.py
detect_keywords(v) ==
  CASE v = "Foodstuffs_NI" ->
         << <<"Foodstuffs", "North", "Island", "Limited">>,
            <<"Order", "Forecast">>, <<"O/F">> >>
    [] v = "WWNZ" ->
         << <<"WOOLWORTHS", "NZ">>, <<"WOOLWORTHS", "NEW", "ZEALAND">>,
            <<"PRODUCE", "ORDER", "NUMBER">>, <<"VENDOR", "COPY">> >>
    [] v = "MyFoodBag" ->
         << <<"My", "Food", "Bag">>, <<"My", "Food", "Bag", "Limited">>,
            <<"GST", "Reg.", "No:">> >>

\* any(kw.upper() in t for kw in keywords)
AnyKw(text, kws) == \E i \in 1..Len(kws) : KwIn(text, kws[i])

\* detect_vendor without the keywords of MyFoodBag.
detect_vendor_NoMyFoodBag(text) ==
  IF AnyKw(text, detect_keywords("WWNZ")) THEN "WWNZ"
  ELSE IF AnyKw(text, detect_keywords("Foodstuffs_NI")) THEN "Foodstuffs_NI"
  ELSE None

\* detect_vendor of app.py, fixed_app.py, app_v6.py: WWNZ first, then
\* Foodstuffs_NI, then MyFoodBag.
detect_vendor(text) ==
  IF AnyKw(text, detect_keywords("WWNZ")) THEN "WWNZ"
  ELSE IF AnyKw(text, detect_keywords("Foodstuffs_NI")) THEN "Foodstuffs_NI"
  ELSE IF AnyKw(text, detect_keywords("MyFoodBag")) THEN "MyFoodBag"
  ELSE None

\* keyword_hits
RECURSIVE SumCount(_, _)
SumCount(text, kws) ==
  IF kws = <<>> THEN 0
  ELSE TextCount(text, Head(kws)) + SumCount(text, Tail(kws))

keyword_hits(text) == [v \in Vendors |-> SumCount(text, detect_keywords(v))]

----------------------------------------------------------------------------
\* Item parsers of app.py, fixed_app.py, app_v6.py

\* A DataFrame: its columns and its rows (records over the columns).
Frame(cols, rows) == [t |-> "df", columns |-> cols, rows |-> rows]

\* A variable that holds None instead of a DataFrame.
NoFrame == [t |-> "none"]

\* pd.DataFrame(rows) of a list of dicts with keys item_id, quantity, price:
\* an empty list gives a frame without columns.
RowsFrame(rows) ==
  Frame(IF rows = <<>> THEN {} ELSE {"item_id", "quantity", "price"}, rows)

Row(item, qty, price) == [item_id |-> item, quantity |-> qty, price |-> price]

\* parse_foodstuffs: every line the pattern matches gives a row; the commas
\* of the price are removed.
RECURSIVE FsRows(_)
FsRows(text) ==
  IF text = <<>> THEN <<>>
  ELSE (IF Head(text).k = "fs"
        THEN <<Row(Str(Head(text).item), Str(Head(text).qty),
                   Str(RemoveChars(Head(text).price, {","})))>>
        ELSE <<>>) \o FsRows(Tail(text))

parse_foodstuffs(text) == RowsFrame(FsRows(text))

\* parse_wwnz reading on after a totals line.
RECURSIVE WwRows_PastTotals(_, _)
WwRows_PastTotals(text, data_started) ==
  IF text = <<>> THEN <<>>
  ELSE LET ln == Head(text) IN
       IF ln.k = "wwhdr" THEN WwRows_PastTotals(Tail(text), TRUE)
       ELSE IF ~data_started THEN WwRows_PastTotals(Tail(text), FALSE)
       ELSE (IF ln.k = "ww"
             THEN <<Row(Str(ln.item), Str(ln.n8), Str(ln.price))>> ELSE <<>>)
            \o WwRows_PastTotals(Tail(text), TRUE)

\* parse_wwnz: rows are read after the header line and until a totals line.
RECURSIVE WwRows(_, _)
WwRows(text, data_started) ==
  IF text = <<>> THEN <<>>
  ELSE LET ln == Head(text) IN
       IF ln.k = "wwhdr" THEN WwRows(Tail(text), TRUE)
       ELSE IF ~data_started THEN WwRows(Tail(text), FALSE)
       ELSE IF ln.k = "wwtot" THEN <<>>
       ELSE (IF ln.k = "ww"
             THEN <<Row(Str(ln.item), Str(ln.n8), Str(ln.price))>> ELSE <<>>)
            \o WwRows(Tail(text), TRUE)

parse_wwnz(text) == RowsFrame(WwRows(text, FALSE))

\* re.sub(r'[^\d.]', '', s)
DigitsAndDots(s) == SelectSeq(s, LAMBDA c : IsDigit(c) \/ c = ".")

\* parse_mfb: the data lines after the first header line, until a totals
\* line; blank lines are removed first.  A header line met among the data
\* lines ends the scan as well: it holds the word TOTAL.
RECURSIVE MfbData(_)
MfbData(lines) ==
  IF lines = <<>> THEN <<>>
  ELSE LET ln  == Head(lines)
           qty == DigitsAndDots(ln.qty)
           prc == DigitsAndDots(ln.price)
       IN  IF ln.k \in {"mfbtot", "mfbhdr"} THEN <<>>
           ELSE (IF ln.k = "mfb" /\ ln.ten /\ qty # <<>> /\ prc # <<>> /\ ln.item # <<>>
                 THEN <<Row(Str(ln.item), Str(qty), Str(prc))>> ELSE <<>>)
                \o MfbData(Tail(lines))

RECURSIVE MfbRows(_)
MfbRows(lines) ==
  IF lines = <<>> THEN <<>>
  ELSE IF Head(lines).k = "mfbhdr" THEN MfbData(Tail(lines))
  ELSE MfbRows(Tail(lines))

parse_mfb(text) ==
  RowsFrame(MfbRows(SelectSeq(text, LAMBDA ln : ln.k # "blank")))

\* validate_dataframe: rows without item_id are removed, quantity and price
\* are cleaned, and the rows with quantity > 0 and price > 0 are kept.
ValidRow(r) ==
  /\ r.item_id # NA /\ r.item_id # Str(<<>>)
  /\ Positive(normalize_numeric(r.quantity))
  /\ Positive(normalize_numeric(r.price))

CleanRow(r) ==
  Row(r.item_id, normalize_numeric(r.quantity), normalize_numeric(r.price))

validate_dataframe(df) ==
  IF df.rows = <<>> THEN df
  ELSE Frame(df.columns,
             [i \in 1..Len(SelectSeq(df.rows, ValidRow)) |->
                CleanRow(SelectSeq(df.rows, ValidRow)[i])])

----------------------------------------------------------------------------
\* Strings

RECURSIVE LStrip(_)
LStrip(s) == IF s # <<>> /\ IsSpace(Head(s)) THEN LStrip(Tail(s)) ELSE s

RECURSIVE RStrip(_)
RStrip(s) ==
  IF s # <<>> /\ IsSpace(s[Len(s)]) THEN RStrip(SubSeq(s, 1, Len(s) - 1)) ELSE s

\* str.strip()
Strip(s) == RStrip(LStrip(s))

----------------------------------------------------------------------------
\* The store resolver.  Names and site codes are sequences of characters;
\* the mapping (store_map.csv) is a sequence of rows
\* [site_code, name, store_id].

\* str.lower() on the characters in use
Lower(c) == CASE c = "A" -> "a" [] c = "B" -> "b" [] OTHER -> c

LowerSeq(s) == [i \in 1..Len(s) |-> Lower(s[i])]

\* needle in hay
Contains(hay, needle) ==
  \E i \in 0..(Len(hay) - Len(needle)) :
     SubSeq(hay, i + 1, i + Len(needle)) = needle

\* key[:40]
KeyPrefixLen == 40

Prefix(s, n) == SubSeq(s, 1, IF Len(s) < n THEN Len(s) ELSE n)

\* The result (None, None)
NoStore == [store_id |-> NA, name |-> NA]

\* m.iloc[0] of the matching rows m, (None, None) when m is empty
FirstRow(m) ==
  IF m = <<>> THEN NoStore
  ELSE [store_id |-> m[1].store_id, name |-> m[1].name]

\* `if not x`: None or the empty string
Falsy(x) == x = NA \/ x = Str(<<>>)

\* The two passes of store_lookup, for the key of the name.
LookupKey(key, df) ==
  IF FirstRow(SelectSeq(df.rows, LAMBDA r : Contains(LowerSeq(r.name.s), Prefix(key, KeyPrefixLen)))) # NoStore
  THEN FirstRow(SelectSeq(df.rows, LAMBDA r : Contains(LowerSeq(r.name.s), Prefix(key, KeyPrefixLen))))
  ELSE FirstRow(SelectSeq(df.rows, LAMBDA r : LowerSeq(r.name.s) # <<>> /\ Contains(LowerSeq(r.name.s), key)))

\* store_lookup of app.py and fixed_app.py: the name only.
store_lookup(name_text, df) ==
  IF df = NoFrame \/ Falsy(name_text) THEN NoStore
  ELSE LookupKey(LowerSeq(Strip(name_text.s)), df)

\* 2) of map_store_to_ids: the name, one pass
MapByName(store_name, df) ==
  IF Falsy(store_name) THEN NoStore
  ELSE FirstRow(SelectSeq(df.rows, LAMBDA r : Contains(LowerSeq(r.name.s), LowerSeq(Strip(store_name.s)))))

\* 1) of map_store_to_ids: the site code, stripped on both sides and
\* compared as it is
MapBySite(site_code, df) ==
  IF Falsy(site_code) THEN NoStore
  ELSE FirstRow(SelectSeq(df.rows, LAMBDA r : Strip(r.site_code.s) = Strip(site_code.s)))

\* map_store_to_ids of pdf_to_csv.py
map_store_to_ids(site_code, store_name, df) ==
  IF df = NoFrame THEN NoStore
  ELSE IF MapBySite(site_code, df) # NoStore THEN MapBySite(site_code, df)
  ELSE MapByName(store_name, df)

\* c.strip().lower() of a column name of a store mapping
NormName(c) ==
  CASE c = "Site_Code" -> "site_code"
    [] c = " Region" -> "region"
    [] OTHER -> c

\* df.columns = [c.strip().lower() for c in df.columns]
NormalizeColumns(df) == [df EXCEPT !.columns = {NormName(c) : c \in @}]

\* The resolver renaming the columns of the frame it was given.
CallerFrame_NoCopy(df) == IF df = NoFrame THEN df ELSE NormalizeColumns(df)

\* The frame of the caller after a call of store_lookup or
\* map_store_to_ids: df = store_map_df.copy() comes first and the columns
\* are renamed on the copy.
CallerFrame(df) == df

\* The store mapping the sidebar holds after the upload of a file: app.py
\* and fixed_app.py drop a mapping without the columns name and store_id,
\* pdf_to_csv.py renames the columns.
LoadedMap(a, m) ==
  IF a = "pdf_to_csv" THEN NormalizeColumns(m)
  ELSE IF {"name", "store_id"} \subseteq m.columns THEN m ELSE NoFrame

\* The resolver a script calls for a site code and a name.
ResolveStore(a, site_code, store_name, df) ==
  IF a = "pdf_to_csv" THEN map_store_to_ids(site_code, store_name, df)
  ELSE store_lookup(store_name, df)

----------------------------------------------------------------------------
\* Header fields: the header patterns of the profiles, extract,
\* parse_date_safe and clean_store_name

\* A header line "<label>[:] <value>" with the line below it (the WWNZ
\* destination is on the line below "Deliver To: <site code>").  The label
\* is prose, so the keywords are searched in it; the value and the line
\* below are sequences of characters.
Labelled(label, colon, val, below) ==
  [k |-> "words", toks |-> label, colon |-> colon, val |-> val, below |-> below]

IsLabelled(ln) == ln.k = "words" /\ "val" \in DOMAIN ln

\* An alternative of the label of a header pattern: its words, and whether
\* a colon must ("req"), may ("opt") or must not ("no") follow them.
Lab(toks, colon) == [toks |-> toks, colon |-> colon]

\* A header pattern: the alternatives of its label and the class of the
\* group that follows it.
Pat(labels, class) == [labels |-> labels, class |-> class]

\* header_extract.get(k) of a key the profile does not have
NoPat == Pat({}, "digits")

IsSuffix(s, t) == Len(s) <= Len(t) /\ SubSeq(t, Len(t) - Len(s) + 1, Len(t)) = s

\* Length of the longest prefix of s made of characters of set.
RECURSIVE RunOf(_, _)
RunOf(s, set) == IF s # <<>> /\ Head(s) \in set THEN 1 + RunOf(Tail(s), set) ELSE 0

Min(a, b) == IF a <= b THEN a ELSE b

\* What [0-9]{1,2}/[0-9]{1,2}/[0-9]{2,4} matches at the start of s
DatePrefix(s) ==
  LET a  == DigitRun(s)
      s2 == SubSeq(s, a + 2, Len(s))
      b  == DigitRun(s2)
      s3 == SubSeq(s2, b + 2, Len(s2))
      c  == DigitRun(s3)
  IN  IF /\ a \in {1, 2} /\ Len(s) > a /\ s[a + 1] = "/"
         /\ b \in {1, 2} /\ Len(s2) > b /\ s2[b + 1] = "/"
         /\ c >= 2
      THEN SubSeq(s, 1, a + 1 + b + 1 + Min(c, 4))
      ELSE <<>>

\* The characters of [A-Za-z0-9\-\&\(\)\/., ] among the characters in use
NameClass == Digits \cup {"A", "a", "b", "C", "D", " ", "-", "/", ".", ","}

\* The characters of [A-Za-z0-9\- _] among the characters in use
DefaultNameClass == Digits \cup {"A", "a", "b", "C", "D", " ", "-", "_"}

\* What follows the label and its colon, white space skipped: \s* goes over
\* the end of the line when nothing else is left on it.
After(ln) == IF LStrip(ln.val) # <<>> THEN LStrip(ln.val) ELSE LStrip(ln.below)

\* ([0-9]{3,6})\s*\n\s*([^\n]+): the site code when the rest of the line
\* is blank and the line below is not
SitePrefix(ln) ==
  IF /\ DigitRun(LStrip(ln.val)) \in 3..6
     /\ Strip(SubSeq(LStrip(ln.val), DigitRun(LStrip(ln.val)) + 1, Len(LStrip(ln.val)))) = <<>>
     /\ Strip(ln.below) # <<>>
  THEN SubSeq(LStrip(ln.val), 1, DigitRun(LStrip(ln.val)))
  ELSE <<>>

\* What the group of a pattern captures on a line whose label matches,
\* <<>> when the group does not match there.
Captured(class, ln) ==
  CASE class = "digits" -> SubSeq(After(ln), 1, DigitRun(After(ln)))
    [] class = "date" -> DatePrefix(After(ln))
    [] class = "digslash" -> SubSeq(After(ln), 1, RunOf(After(ln), Digits \cup {"/"}))
    [] class = "digslash8" ->
         IF RunOf(After(ln), Digits \cup {"/"}) >= 8
         THEN SubSeq(After(ln), 1, RunOf(After(ln), Digits \cup {"/"})) ELSE <<>>
    [] class = "line" -> IF LStrip(ln.val) # <<>> THEN ln.val ELSE ln.below
    [] class = "name" -> SubSeq(After(ln), 1, RunOf(After(ln), NameClass))
    [] class = "name2" -> SubSeq(After(ln), 1, RunOf(After(ln), DefaultNameClass))
    [] class = "site" -> SitePrefix(ln)

\* re.search(pattern, line, re.I) succeeds
PatMatches(pattern, ln) ==
  /\ IsLabelled(ln)
  /\ \E l \in pattern.labels :
       /\ IsSuffix(UpperSeq(l.toks), UpperSeq(ln.toks))
       /\ l.colon = "req" => ln.colon
       /\ l.colon = "no" => ~ln.colon
  /\ Captured(pattern.class, ln) # <<>>

\* The number of capturing groups of a pattern.  The header patterns of
\* the profiles have one group and the destination pattern of WWNZ two; a
\* pattern a configuration file brings can have none, or a second group
\* around its label: (label)[:]?\s*(value).
Groups(pattern) ==
  IF "groups" \in DOMAIN pattern THEN pattern.groups
  ELSE IF pattern.class = "site" THEN 2 ELSE 1

PatG(labels, class, groups) == Pat(labels, class) @@ [groups |-> groups]

\* " ".join(words) as a sequence of characters and words
RECURSIVE JoinWords(_)
JoinWords(ws) ==
  IF Len(ws) <= 1 THEN ws ELSE <<Head(ws), " ">> \o JoinWords(Tail(ws))

\* The words of the line the label of the pattern matches.
MatchedLabel(pattern, ln) ==
  JoinWords(SubSeq(ln.toks,
                   Len(ln.toks) + 1
                   - Len((CHOOSE l \in pattern.labels :
                            IsSuffix(UpperSeq(l.toks), UpperSeq(ln.toks))).toks),
                   Len(ln.toks)))

\* The white space \s* goes over between the label and the group.
Gap(ln) ==
  IF LStrip(ln.val) # <<>> THEN SubSeq(ln.val, 1, Len(ln.val) - Len(LStrip(ln.val)))
  ELSE ln.val \o <<"\n">> \o SubSeq(ln.below, 1, Len(ln.below) - Len(LStrip(ln.below)))

\* m.group(0) of a match on the line
WholeMatch(pattern, ln) ==
  MatchedLabel(pattern, ln) \o (IF ln.colon THEN <<":">> ELSE <<>>) \o Gap(ln)
  \o LStrip(Captured(pattern.class, ln))

\* m.group(1) of a match on the line
Group1(pattern, ln) ==
  IF Groups(pattern) = 2 /\ pattern.class # "site" THEN MatchedLabel(pattern, ln)
  ELSE Captured(pattern.class, ln)

\* extract(pattern, text): group 1 of the first match when the pattern has
\* groups, else the whole match, stripped; None when there is no pattern
\* or no match.
RECURSIVE extract(_, _)
extract(pattern, text) ==
  IF text = <<>> THEN NA
  ELSE IF PatMatches(pattern, Head(text))
       THEN Str(Strip(IF Groups(pattern) = 0 THEN WholeMatch(pattern, Head(text))
                      ELSE Group1(pattern, Head(text))))
       ELSE extract(pattern, Tail(text))

\* VENDOR_PROFILES[v]["header_extract"] of app.py, fixed_app.py, app_v6.py
header_extract(v) ==
  CASE v = "Foodstuffs_NI" ->
         [PO_Number |-> Pat({Lab(<<"Order", "Forecast", "Number">>, "opt")}, "digits"),
          Order_Date |-> Pat({Lab(<<"Date", "of", "Order">>, "opt")}, "date"),
          Delivery_Date |-> Pat({Lab(<<"Delivery", "Date">>, "opt")}, "date")]
    [] v = "WWNZ" ->
         [PO_Number |-> Pat({Lab(<<"PRODUCE", "ORDER", "NUMBER">>, "req")}, "digits"),
          Order_Date |-> Pat({Lab(<<"Order", "Date">>, "req")}, "date"),
          Delivery_Date |-> Pat({Lab(<<"Delivery", "Date">>, "req")}, "date")]
    [] v = "MyFoodBag" ->
         [PO_Number |-> Pat({Lab(<<"Purchase", "No">>, "opt"),
                             Lab(<<"Purchase", "Order", "No">>, "opt")}, "digits"),
          Order_Date |-> Pat({Lab(<<"Order", "Date">>, "opt")}, "date"),
          Delivery_Date |-> NoPat]

\* VENDOR_PROFILES[v]["store_regex"] of app.py, fixed_app.py, app_v6.py.
\* The pattern of MyFoodBag is the address block "My Food Bag ...
\* Christchurch 8042", which the texts in use do not hold.
store_regex(v) ==
  CASE v = "Foodstuffs_NI" ->
         Pat({Lab(<<"Delivery", "To">>, "opt"), Lab(<<"Delivery", "Address">>, "opt")},
             "line")
    [] v = "WWNZ" -> Pat({Lab(<<"Deliver", "To">>, "req")}, "site")
    [] v = "MyFoodBag" -> NoPat

\* The pattern order_date is extracted with:
\* header_extract.get("Delivery_Date") or header_extract.get("Order_Date")
OrderDatePattern(he) ==
  IF he.Delivery_Date # NoPat THEN he.Delivery_Date ELSE he.Order_Date

RECURSIVE IndexOf(_, _, _)
IndexOf(s, c, i) ==
  IF i > Len(s) THEN 0 ELSE IF s[i] = c THEN i ELSE IndexOf(s, c, i + 1)

\* s.split(sep)
RECURSIVE Fields(_, _)
Fields(s, sep) ==
  IF IndexOf(s, sep, 1) = 0 THEN <<s>>
  ELSE <<SubSeq(s, 1, IndexOf(s, sep, 1) - 1)>>
       \o Fields(SubSeq(s, IndexOf(s, sep, 1) + 1, Len(s)), sep)

AllDigits(f) == \A i \in 1..Len(f) : IsDigit(f[i])

IsLeap(y) == (y % 4 = 0 /\ y % 100 # 0) \/ y % 400 = 0

DaysIn(y, m) ==
  IF m = 2 THEN (IF IsLeap(y) THEN 29 ELSE 28)
  ELSE IF m \in {4, 6, 9, 11} THEN 30 ELSE 31

\* A field of one or two digits (%d, %m), of four (%Y), of two (%y)
IsNum12(f) == Len(f) \in {1, 2} /\ AllDigits(f) /\ DigitsVal(f) >= 1

\* %d also reads a digit with a space before it
IsDay(f) == IsNum12(f) \/ (Len(f) = 2 /\ f[1] = " " /\ IsNum12(Tail(f)))

DayVal(f) == IF f[1] = " " THEN DigitsVal(Tail(f)) ELSE DigitsVal(f)

\* %y: 69..99 are 1969..1999, 00..68 are 2000..2068
Year2(n) == IF n >= 69 THEN 1900 + n ELSE 2000 + n

\* date(y, m, d).isoformat()
IsoDate(y, m, d) ==
  Str(PadLeft(NatDigits(y), 4) \o <<"-">> \o PadLeft(NatDigits(m), 2)
      \o <<"-">> \o PadLeft(NatDigits(d), 2))

\* datetime.strptime(s, fmt).date().isoformat() for the format with the
\* given separator and order of fields ("dmY", "dmy" or "Ymd"); NA when
\* strptime raises.
StrpDate(s, sep, order) ==
  LET f == Fields(s, sep)
      yf == IF order = "Ymd" THEN f[1] ELSE f[3]
      df == IF order = "Ymd" THEN f[3] ELSE f[1]
      y == IF order = "dmy" THEN Year2(DigitsVal(yf)) ELSE DigitsVal(yf)
  IN  IF /\ Len(f) = 3
         /\ AllDigits(yf) /\ Len(yf) = (IF order = "dmy" THEN 2 ELSE 4)
         /\ y >= 1
         /\ IsNum12(f[2]) /\ DigitsVal(f[2]) <= 12
         /\ IsDay(df) /\ DayVal(df) <= DaysIn(y, DigitsVal(f[2]))
      THEN IsoDate(y, DigitsVal(f[2]), DayVal(df))
      ELSE NA

\* The formats parse_date_safe tries, in order.
DateFormats ==
  << <<"/", "dmY">>, <<"/", "dmy">>, <<"/", "Ymd">>, <<"-", "dmY">>, <<"-", "Ymd">> >>

RECURSIVE TryFormats(_, _)
TryFormats(s, fmts) ==
  IF fmts = <<>> THEN NA
  ELSE IF StrpDate(s, Head(fmts)[1], Head(fmts)[2]) # NA
       THEN StrpDate(s, Head(fmts)[1], Head(fmts)[2])
       ELSE TryFormats(s, Tail(fmts))

\* parse_date_safe giving back the stripped string when no format parses.
parse_date_safe_Stripped(x) ==
  IF Falsy(x) THEN NA
  ELSE IF TryFormats(Strip(x.s), DateFormats) # NA
       THEN TryFormats(Strip(x.s), DateFormats)
       ELSE Str(Strip(x.s))

\* parse_date_safe: None for None and "", the ISO date of the first format
\* that parses the stripped string, the string itself when none does.
parse_date_safe(x) ==
  IF Falsy(x) THEN NA
  ELSE IF TryFormats(Strip(x.s), DateFormats) # NA
       THEN TryFormats(Strip(x.s), DateFormats)
       ELSE x

\* re.sub(r'^\d{3,5}\s*\n?\s*', '', s)
DropLeadingCode(s) ==
  IF DigitRun(s) >= 3 THEN LStrip(SubSeq(s, Min(DigitRun(s), 5) + 1, Len(s))) ELSE s

\* clean_store_name; the names in use do not hold "Vendor Number", so the
\* first substitution leaves them as they are.
clean_store_name(vendor, raw_name) ==
  IF Falsy(raw_name) THEN raw_name
  ELSE IF vendor = "WWNZ" THEN Str(Strip(DropLeadingCode(raw_name.s)))
  ELSE Str(Strip(raw_name.s))

\* The header fields of the document for the output frame: sales_id,
\* order_date and name_txt of the active vendor's profile.
HeaderOf(vendor, text) ==
  [sales_id |-> extract(header_extract(vendor).PO_Number, text),
   order_date |-> parse_date_safe(extract(OrderDatePattern(header_extract(vendor)), text)),
   name_txt |-> clean_store_name(vendor, extract(store_regex(vendor), text))]

----------------------------------------------------------------------------
\* Main loop of app.py and fixed_app.py: one iteration, on the text of one
\* uploaded PDF.  prev holds the values the loop's variables have from the
\* iteration before.

\* The parser the main loop runs for a vendor (the last branch is an else).
ParseFor(vendor, text) ==
  IF vendor = "Foodstuffs_NI" THEN parse_foodstuffs(text)
  ELSE IF vendor = "WWNZ" THEN parse_wwnz(text)
  ELSE parse_mfb(text)

\* sizes = {'Foodstuffs_NI': len(fs_df), 'WWNZ': len(ww_df), 'MyFoodBag': len(mfb_df)}
FallbackSizes(text) ==
  [v \in Vendors |-> Len(validate_dataframe(ParseFor(v, text)).rows)]

\* The keys of sizes in the order the dict literal gives them.
SizeOrder == <<"Foodstuffs_NI", "WWNZ", "MyFoodBag">>

\* MaxKey as a scan that keeps the later of two equal sizes would have it:
\* the last key whose value is the largest.
MaxKey_LastLargest(sizes) ==
  SizeOrder[CHOOSE i \in 1..Len(SizeOrder) :
              /\ \A j \in 1..Len(SizeOrder) : sizes[SizeOrder[j]] <= sizes[SizeOrder[i]]
              /\ \A j \in (i + 1)..Len(SizeOrder) : sizes[SizeOrder[j]] < sizes[SizeOrder[i]]]

\* max(sizes, key=lambda k: sizes[k]): the first key, in dict order, whose
\* value is the largest.
MaxKey(sizes) ==
  SizeOrder[CHOOSE i \in 1..Len(SizeOrder) :
              /\ \A j \in 1..Len(SizeOrder) : sizes[SizeOrder[j]] <= sizes[SizeOrder[i]]
              /\ \A j \in 1..(i - 1) : sizes[SizeOrder[j]] < sizes[SizeOrder[i]]]

\* `if not text or not text.strip()` (app.py), `if not text` (fixed_app.py)
ExtractionFailed(a, text) ==
  IF a = "app" THEN text = <<>> \/ IsBlankText(text) ELSE text = <<>>

\* body = None; chosen_by_rows = None at the top of the fallback section
ResetBody(prev_body) == NoFrame

\* out = pd.DataFrame({... "item_id": body.get("item_id") ...}) followed by
\* dropna(subset=['item_id']) and out[out['item_id'] != '']
OutRows(body) ==
  SelectSeq(body.rows, LAMBDA r : r.item_id # NA /\ r.item_id # Str(<<>>))

\* The output frame: the scalars store_id, name, sales_id and order_date
\* are repeated on every row of the item columns.
Stamp(store_id, name, sales_id, order_date, rows) ==
  [i \in 1..Len(rows) |->
     [store_id |-> store_id, name |-> name, sales_id |-> sales_id,
      order_date |-> order_date, item_id |-> rows[i].item_id,
      quantity |-> rows[i].quantity, price |-> rows[i].price]]

\* store_id, mapped_name = store_lookup(name_txt, store_map_df);
\* final_name = mapped_name or name_txt
OutRecords(h, st, rows) ==
  Stamp(st.store_id, IF Falsy(st.name) THEN h.name_txt ELSE st.name,
        h.sales_id, h.order_date, rows)

AppOut(h, df, body) == OutRecords(h, store_lookup(h.name_txt, df), OutRows(body))

\* The fallback by rows: only when the choice is Auto and no keyword was
\* found, and only when some parser gives a row.
FallbackChoice(choice, detected, sizes) ==
  IF detected = None /\ choice = "Auto" /\ \E v \in Vendors : sizes[v] > 0
  THEN MaxKey(sizes) ELSE None

\* The skips and the append at the end of the iteration.
AppAssemble(prev, vendor, chosen, body0, body, text, df) ==
  IF vendor = None
  THEN [diag |-> "Undetected", active_vendor |-> None, chosen_by_rows |-> None,
        body |-> body0, out |-> prev.out, appended |-> FALSE, raised |-> FALSE]
  ELSE IF body.rows = <<>>
  THEN [diag |-> "NoRows", active_vendor |-> vendor, chosen_by_rows |-> chosen,
        body |-> body, out |-> prev.out, appended |-> FALSE, raised |-> FALSE]
  ELSE [diag |-> "OK", active_vendor |-> vendor, chosen_by_rows |-> chosen,
        body |-> body, out |-> AppOut(HeaderOf(vendor, text), df, body),
        appended |-> TRUE, raised |-> FALSE]

\* `if body is None:` the parser of the vendor runs; the fallback has
\* already set body when it chose a vendor.
AppParse(prev, text, detected, chosen, body0, df) ==
  AppAssemble(prev, IF chosen # None THEN chosen ELSE detected, chosen, body0,
              IF chosen # None THEN validate_dataframe(ParseFor(chosen, text))
              ELSE IF body0 = NoFrame
              THEN validate_dataframe(ParseFor(detected, text))
              ELSE body0,
              text, df)

AppFallback(choice, prev, text, detected, df) ==
  AppParse(prev, text, detected,
           FallbackChoice(choice, detected, FallbackSizes(text)),
           ResetBody(prev.body), df)

AppIter(a, choice, prev, text, df) ==
  IF ExtractionFailed(a, text)
  THEN [prev EXCEPT !.diag = "ExtractFailed", !.appended = FALSE,
                    !.raised = FALSE]
  ELSE AppFallback(choice, prev, text,
                   IF choice = "Auto" THEN detect_vendor(text) ELSE choice, df)

\* The output frame of app_v6.py: store_id is None and name is raw_name,
\* the store mapping is not looked at.
V6Out(h, raw_name, body) == Stamp(NA, raw_name, h.sales_id, h.order_date, body.rows)

\* Main loop of app_v6.py: no check of the text, no fallback, no skip.
V6Assemble(prev, vendor, body, text) ==
  IF vendor = None
  \* prof = VENDOR_PROFILES[active_vendor] raises KeyError
  THEN [diag |-> "KeyError", active_vendor |-> None, chosen_by_rows |-> None,
        body |-> body, out |-> prev.out, appended |-> FALSE, raised |-> TRUE]
  ELSE IF "item_id" \notin body.columns
  \* body.get(...) is None for every column: pd.DataFrame of scalars only
  \* raises ValueError
  THEN [diag |-> "ValueError", active_vendor |-> vendor, chosen_by_rows |-> None,
        body |-> body, out |-> prev.out, appended |-> FALSE, raised |-> TRUE]
  ELSE [diag |-> "OK", active_vendor |-> vendor, chosen_by_rows |-> None,
        body |-> body,
        out |-> V6Out(HeaderOf(vendor, text), extract(store_regex(vendor), text), body),
        appended |-> TRUE, raised |-> FALSE]

V6Parse(prev, vendor, text) ==
  V6Assemble(prev, vendor, validate_dataframe(ParseFor(vendor, text)), text)

V6Iter(choice, prev, text) ==
  V6Parse(prev, IF choice = "Auto" THEN detect_vendor(text) ELSE choice, text)

----------------------------------------------------------------------------
\* pdf_to_csv.py: the profile registry

\* One entry of VENDOR_PROFILES.  column_map is the dict as the sequence of
\* its (key, value) pairs; line_regex names the kind of line the pattern
\* matches ("" when the profile has none).
Profile(key, kws, colmap, regex) ==
  [key |-> key, detect_keywords |-> kws, column_map |-> colmap, line_regex |-> regex]

\* A profile with its header_extract (the keys the export reads) and its
\* store_regex.
WithHeader(profile, he, store_re) ==
  profile @@ [header_extract |-> he, store_regex |-> store_re]

FoodstuffsProfile ==
  WithHeader(
  Profile("Foodstuffs_NI",
          << <<"Foodstuffs", "North", "Island", "Limited">>,
             <<"Order", "Forecast">>, <<"O/F">> >>,
          << <<"Line", "Line">>, <<"Item #", "ItemNo">>,
             <<"Article Number", "Article">>, <<"Product Description", "Item">>,
             <<"Order Qty", "Qty">>, <<"Purchasing Unit of Measure", "UoM">>,
             <<"Units Per Purchasing UoM", "UnitsPerUoM">>,
             <<"Price Per Ord. Unit", "Unit Price">>,
             <<"Total Price", "Line Total">> >>,
          "fs"),
  [PO_Number |-> Pat({Lab(<<"Order", "Forecast", "Number">>, "req")}, "digits"),
   Order_Date |-> Pat({Lab(<<"Date", "of", "Order">>, "req")}, "digslash"),
   Delivery_Date |-> Pat({Lab(<<"Delivery", "Date">>, "req")}, "digslash")],
  Pat({Lab(<<"Delivery", "To">>, "opt"), Lab(<<"Delivery", "Address">>, "opt")},
      "name"))

MyFoodBagProfile ==
  WithHeader(
  Profile("MyFoodBag",
          << <<"My", "Food", "Bag", "Limited">>, <<"PURCHASE", "ORDER">>,
             <<"GST", "Reg.", "No:">> >>,
          << <<"Item No.", "ItemNo">>, <<"QTY", "Qty">>, <<"DESCRIPTION", "Item">>,
             <<"Delivery Date", "Delivery_Date">>, <<"PRICE", "Unit Price">>,
             <<"TOTAL", "Line Total">> >>,
          "mfb"),
  [PO_Number |-> Pat({Lab(<<"Purchase", "No">>, "req")}, "digits"),
   Order_Date |-> Pat({Lab(<<"Order", "Date">>, "no")}, "digslash"),
   Delivery_Date |-> NoPat],
  Pat({Lab(<<"Delivery", "Instructions">>, "req"), Lab(<<"My", "Food", "Bag">>, "no")},
      "name"))

WWNZProfile ==
  WithHeader(
  Profile("WWNZ",
          << <<"WOOLWORTHS", "NZ">>, <<"NEW", "PURCHASE", "ORDER">>,
             <<"VENDOR", "COPY">>, <<"WOOLWORTHS", "NEW", "ZEALAND">>,
             <<"PRODUCE", "ORDER", "NUMBER">> >>,
          << <<"ITEM DESCRIPTION", "Item">>, <<"ITEM NO", "ItemNo">>,
             <<"ORD QTY", "Qty">>, <<"PRICE EXCL", "Unit Price">> >>,
          "ww"),
  [PO_Number |-> Pat({Lab(<<"PRODUCE", "ORDER", "NUMBER">>, "req")}, "digits"),
   Order_Date |-> Pat({Lab(<<"Order", "Date">>, "req")}, "digslash8"),
   Delivery_Date |-> Pat({Lab(<<"Delivery", "Date">>, "req")}, "digslash8")],
  Pat({Lab(<<"Deliver", "To">>, "req")}, "site"))

\* The dict literal VENDOR_PROFILES, in its insertion order.
DefaultProfiles == <<FoodstuffsProfile, MyFoodBagProfile, WWNZProfile>>

\* The profile `{}` try_parse uses when no vendor is active.
NoProfile ==
  WithHeader(Profile(None, <<>>, <<>>, ""),
             [PO_Number |-> NoPat, Order_Date |-> NoPat, Delivery_Date |-> NoPat],
             NoPat)

ProfileKeys(reg) == {reg[i].key : i \in 1..Len(reg)}

\* VENDOR_PROFILES.get(active_vendor, {}) if active_vendor else {}
GetProfile(reg, vendor) ==
  IF vendor = None \/ vendor \notin ProfileKeys(reg) THEN NoProfile
  ELSE reg[CHOOSE i \in 1..Len(reg) : reg[i].key = vendor]

\* detect_vendor of pdf_to_csv.py: the first profile, in the dict's
\* iteration order, one of whose keywords occurs in the text.
RECURSIVE PdfDetectVendor(_, _)
PdfDetectVendor(reg, text) ==
  IF reg = <<>> THEN None
  ELSE IF AnyKw(text, Head(reg).detect_keywords) THEN Head(reg).key
  ELSE PdfDetectVendor(Tail(reg), text)

\* PdfActiveVendor with the keywords scanned before the choice is looked at.
PdfActiveVendor_KeywordsFirst(reg, choice, text) ==
  IF PdfDetectVendor(reg, text) # None THEN PdfDetectVendor(reg, text)
  ELSE IF choice \in ProfileKeys(reg) THEN choice ELSE None

\* active_vendor = detect_vendor(text_concat) if vendor_choice == "Auto"
\*   else (vendor_choice if vendor_choice in VENDOR_PROFILES else None)
PdfActiveVendor(reg, choice, text) ==
  IF choice = "Auto" THEN PdfDetectVendor(reg, text)
  ELSE IF choice \in ProfileKeys(reg) THEN choice ELSE None

----------------------------------------------------------------------------
\* pdf_to_csv.py: the line-pattern strategy of try_parse

AllIn(s, set) == \A i \in 1..Len(s) : s[i] \in set

\* [0-9]+\.[0-9]{2}
Price2(p) ==
  /\ Len(p) >= 4
  /\ p[Len(p) - 2] = "."
  /\ AllIn(SubSeq(p, 1, Len(p) - 3), Digits)
  /\ AllIn(SubSeq(p, Len(p) - 1, Len(p)), Digits)

\* pat.match(line) for the line_regex of the given kind
LineMatches(regex, ln) ==
  CASE regex = "fs"  -> ln.k = "fs" /\ ln.qty # <<>> /\ AllIn(ln.qty, Digits) /\ Price2(ln.price)
    [] regex = "mfb" -> ln.k = "mfb" /\ ln.qty # <<>> /\ AllIn(ln.qty, Digits \cup {","})
                        /\ Price2(ln.price)
    [] regex = "ww"  -> ln.k = "ww" /\ Price2(ln.price)
    [] OTHER -> FALSE

\* The pattern whose groups the branch of a vendor unpacks.
BranchRegex(vendor) ==
  CASE vendor = "Foodstuffs_NI" -> "fs"
    [] vendor = "MyFoodBag" -> "mfb"
    [] vendor = "WWNZ" -> "ww"
    [] OTHER -> ""

\* A row of a normalized table: Item, Qty, Unit Price, ItemNo.
NormRow(item, qty, price, itemno) ==
  [Item |-> item, Qty |-> qty, UnitPrice |-> price, ItemNo |-> itemno]

\* The dict a matching line appends to rows.
LineRow(vendor, ln) ==
  CASE vendor = "Foodstuffs_NI" ->
         NormRow(Str(<<"Apples">>), ParseToken(ln.qty), ParseToken(ln.price), Str(ln.item))
    [] vendor = "MyFoodBag" ->
         NormRow(Str(<<"Apples">>), ParseToken(RemoveChars(ln.qty, {","})),
                 ParseToken(ln.price), Str(ln.item))
    [] vendor = "WWNZ" ->
         NormRow(Str(<<"Apples">>), ParseToken(ln.n7), ParseToken(ln.price), Str(ln.item))

\* A matching line on which the branch raises: the groups of another
\* profile's pattern do not unpack, and float("") of a QTY of commas only.
LineRaises(vendor, regex, ln) ==
  \/ regex # BranchRegex(vendor)
  \/ vendor = "MyFoodBag" /\ RemoveChars(ln.qty, {","}) = <<>>

\* The lines the loop over text_concat.splitlines() appends a row for: a
\* vendor other than the three has no branch.
PdfMatching(vendor, regex, text) ==
  IF BranchRegex(vendor) = "" THEN <<>>
  ELSE SelectSeq(text, LAMBDA ln : LineMatches(regex, ln))

PdfLineRows(vendor, regex, text) ==
  LET ms == PdfMatching(vendor, regex, text)
  IN  [i \in 1..Len(ms) |-> LineRow(vendor, ms[i])]

PdfLineRaises(vendor, regex, text) ==
  LET ms == PdfMatching(vendor, regex, text)
  IN  \E i \in 1..Len(ms) : LineRaises(vendor, regex, ms[i])

----------------------------------------------------------------------------
\* pdf_to_csv.py: the structured-table strategy of try_parse.  A table is
\* [columns |-> <<name, ...>>, rows |-> << <<cell, ...>>, ... >>].

\* A column has dtype object when it holds a string.
IsObject(df, j) == \E i \in 1..Len(df.rows) : df.rows[i][j].t = "str"

\* clean_cols: the cells of the object columns become stripped strings.
\* (The column names of the tables considered carry no surrounding space.)
clean_cols(df) ==
  [columns |-> df.columns,
   rows |-> [i \in 1..Len(df.rows) |->
               [j \in 1..Len(df.columns) |->
                  IF IsObject(df, j) THEN Str(Strip(CellStr(df.rows[i][j])))
                  ELSE df.rows[i][j]]]]

\* The value colmap gives a column name, the name itself when it is no key.
Renamed(colmap, c) ==
  IF \E i \in 1..Len(colmap) : colmap[i][1] = c
  THEN colmap[CHOOSE i \in 1..Len(colmap) : colmap[i][1] = c][2]
  ELSE c

\* df.rename(columns={src: dst for src, dst in colmap.items() if src in df.columns})
RenameColumns(df, colmap) ==
  [df EXCEPT !.columns = [j \in 1..Len(df.columns) |-> Renamed(colmap, df.columns[j])]]

\* [k for k, v in colmap.items() if v in dsts] or guess
Candidates(colmap, dsts, guess) ==
  LET ks == SelectSeq(colmap, LAMBDA kv : kv[2] \in dsts)
  IN  IF ks = <<>> THEN guess ELSE [i \in 1..Len(ks) |-> ks[i][1]]

\* The sidebar's default candidate lists and coerce_to_standard's default
\* id candidates.  (The Chinese column names and words of the source are
\* written in pinyin: pinming, shuliang, danjia, jiage, heji.)
item_cols_guess == <<"Item", "Description", "DESCRIPTION", "Product Description", "pinming">>

qty_cols_guess == <<"Qty", "Quantity", "QTY", "shuliang", "Order Qty", "ORD QTY">>

price_cols_guess ==
  <<"Unit Price", "PRICE", "Price", "danjia", "Price Per Ord. Unit", "PRICE EXCL">>

id_cols_default ==
  <<"ItemNo", "Item #", "Item No.", "ITEM NO", "Article Number", "Article",
    "SKU", "PLU", "GTIN", "UPC", "Barcode">>

InSeq(x, q) == \E i \in 1..Len(q) : q[i] = x

\* pick_first_existing
pick_first_existing(cols, cands) ==
  IF \E i \in 1..Len(cands) : InSeq(cands[i], cols)
  THEN cands[CHOOSE i \in 1..Len(cands) :
               /\ InSeq(cands[i], cols)
               /\ \A j \in 1..(i - 1) : ~InSeq(cands[j], cols)]
  ELSE None

\* re.search(r"\b(qty|quantity|shuliang)\b", c, re.I) on the column names in use
QtyGuess(c) ==
  c \in {"Qty", "QTY", "Quantity", "shuliang", "Order Qty", "ORD QTY"}

\* re.search(r"(unit\s*price|price|danjia|jiage)", c, re.I) on the column names in use
PriceGuess(c) ==
  c \in {"Unit Price", "PRICE", "Price", "danjia", "Price Per Ord. Unit",
         "PRICE EXCL", "Total Price"}

\* maybe[0] if maybe else None
FirstWhere(maybe) == IF maybe = <<>> THEN None ELSE maybe[1]

ColIndex(cols, c) ==
  CHOOSE j \in 1..Len(cols) : cols[j] = c /\ \A h \in 1..(j - 1) : cols[h] # c

\* df[c] is a Series only when one column bears the name.
IsDup(cols, c) == Cardinality({j \in 1..Len(cols) : cols[j] = c}) > 1

\* a or b, for a column that may be None
OrElse(a, b) == IF a # None THEN a ELSE b

\* The columns coerce_to_standard reads.
StdColumns(df, item_c, qty_c, price_c, id_c) ==
  [item  |-> OrElse(pick_first_existing(df.columns, item_c), df.columns[1]),
   qty   |-> OrElse(pick_first_existing(df.columns, qty_c),
                    FirstWhere(SelectSeq(df.columns, QtyGuess))),
   price |-> OrElse(pick_first_existing(df.columns, price_c),
                    FirstWhere(SelectSeq(df.columns, PriceGuess))),
   id    |-> pick_first_existing(df.columns, id_c)]

\* df[name] of row i
Cell(df, i, name) == df.rows[i][ColIndex(df.columns, name)]

\* The DataFrame coerce_to_standard returns, for the columns c.
CoerceRows(df, c) ==
  [i \in 1..Len(df.rows) |->
     NormRow(Str(CellStr(Cell(df, i, c.item))),
             IF c.qty # None THEN normalize_numeric(Cell(df, i, c.qty)) ELSE NA,
             IF c.price # None THEN normalize_numeric(Cell(df, i, c.price)) ELSE NA,
             IF c.id # None THEN Str(CellStr(Cell(df, i, c.id))) ELSE NA)]

CoerceCleaned(df, item_c, qty_c, price_c, id_c) ==
  CoerceRows(df, StdColumns(df, item_c, qty_c, price_c, id_c))

\* coerce_to_standard
coerce_to_standard(df0, item_c, qty_c, price_c, id_c) ==
  CoerceCleaned(clean_cols(df0), item_c, qty_c, price_c, id_c)

DupIn(df, c) ==
  \E n \in {c.item, c.qty, c.price, c.id} : n # None /\ IsDup(df.columns, n)

\* coerce_to_standard raises (and the table is skipped) when a column it
\* reads is not a single column.
CoerceRaises(df, item_c, qty_c, price_c, id_c) ==
  DupIn(df, StdColumns(df, item_c, qty_c, price_c, id_c))

\* str.fullmatch(r"(?i)(total|heji)")
IsTotal(s) == s \in {<<"Total">>, <<"TOTAL">>, <<"total">>, <<"heji">>}

\* str.match(r"(?i)^(item|sku|code|description|pinming|heji|total)$")
IsNoise(s) ==
  \/ IsTotal(s)
  \/ s \in {<<"Item">>, <<"ITEM">>, <<"item">>, <<"SKU">>, <<"sku">>, <<"Code">>,
            <<"CODE">>, <<"code">>, <<"Description">>, <<"DESCRIPTION">>,
            <<"description">>, <<"pinming">>}

\* try: norm = coerce_to_standard(...) except: continue; then the rows with
\* an empty Item or a total are removed.
NormalizeRenamed(df, item_c, qty_c, prc_c, id_c) ==
  IF CoerceRaises(df, item_c, qty_c, prc_c, id_c) THEN <<>>
  ELSE SelectSeq(coerce_to_standard(df, item_c, qty_c, prc_c, id_c),
                 LAMBDA r : Strip(r.Item.s) # <<>> /\ ~IsTotal(r.Item.s))

\* One table of the loop `for t in tables`: the rows it contributes to
\* normalized_tables (none when it is empty, raises, or keeps no row).
NormalizeTable(t, colmap) ==
  IF t.rows = <<>> \/ t.columns = <<>> THEN <<>>
  ELSE NormalizeRenamed(RenameColumns(clean_cols(t), colmap),
                        Candidates(colmap, {"Item"}, item_cols_guess),
                        Candidates(colmap, {"Qty"}, qty_cols_guess),
                        Candidates(colmap, {"Unit Price"}, price_cols_guess),
                        Candidates(colmap, {"ItemNo", "ITEM NO"}, id_cols_default))

RECURSIVE NormalizeTables(_, _)
NormalizeTables(tables, colmap) ==
  IF tables = <<>> THEN <<>>
  ELSE NormalizeTable(Head(tables), colmap) \o NormalizeTables(Tail(tables), colmap)

----------------------------------------------------------------------------
\* pdf_to_csv.py: try_parse on the text and the tables recovered from one PDF

\* merged["Qty"] = normalize_numeric(merged["Qty"]), the same for the unit
\* price, then the rows whose Item is header noise are removed.  idx is
\* the index label of the row: pd.concat(..., ignore_index=True) numbers the
\* rows from 0 and the filter keeps the labels.
MergedRows(rows) ==
  LET cleaned == [i \in 1..Len(rows) |->
                    [rows[i] EXCEPT !.Qty = normalize_numeric(@),
                                    !.UnitPrice = normalize_numeric(@)]
                    @@ [idx |-> i - 1]]
  IN  SelectSeq(cleaned, LAMBDA r : ~IsNoise(r.Item.s))

\* The line-pattern strategy.  The MyFoodBag rows carry a Delivery_Date
\* column, and merged.insert(3, "Delivery_Date", ...) raises on a column
\* that exists.
ParseLines(vendor, regex, text) ==
  IF \/ PdfLineRaises(vendor, regex, text)
     \/ vendor = "MyFoodBag" /\ PdfMatching(vendor, regex, text) # <<>>
  THEN [raised |-> TRUE, active_vendor |-> vendor, rows |-> <<>>]
  ELSE [raised |-> FALSE, active_vendor |-> vendor,
        rows |-> MergedRows(PdfLineRows(vendor, regex, text))]

\* The cascade: the line pattern is tried only when the tables gave
\* nothing, the profile has a pattern and there is text.
ParseStrategies(vendor, regex, text, tabrows) ==
  IF tabrows = <<>> /\ regex # "" /\ text # <<>>
  THEN ParseLines(vendor, regex, text)
  ELSE [raised |-> FALSE, active_vendor |-> vendor, rows |-> MergedRows(tabrows)]

ParseWithProfile(vendor, profile, text, tables) ==
  ParseStrategies(vendor, profile.line_regex, text,
                  NormalizeTables(tables, profile.column_map))

ParseAs(reg, vendor, text, tables) ==
  ParseWithProfile(vendor, GetProfile(reg, vendor), text, tables)

\* default_store_re of the sidebar: the store_regex of the chosen vendor in
\* the registry of the script, (Store|...)[:]?\s*([A-Za-z0-9\- _]+) under
\* Auto.
default_store_re(choice) ==
  IF choice = "Auto" THEN Pat({Lab(<<"Store">>, "opt")}, "name2")
  ELSE GetProfile(DefaultProfiles, choice).store_regex

\* extract_store: the site code and the name of the first match of the
\* store pattern; a pattern without a site-code group gives the name only.
RECURSIVE extract_store(_, _)
extract_store(text, store_re) ==
  IF text = <<>> THEN [site_code |-> NA, store_name |-> NA]
  ELSE IF PatMatches(store_re, Head(text))
       THEN IF store_re.class = "site"
            THEN [site_code |-> Str(Captured("site", Head(text))),
                  store_name |-> Str(Strip(Head(text).below))]
            ELSE [site_code |-> NA,
                  store_name |-> Str(Strip(Captured(store_re.class, Head(text))))]
       ELSE extract_store(Tail(text), store_re)

\* extract_by_regex of pdf_to_csv.py as try_parse uses it for a header
\* field: the group of a pattern with one group, the whole match of a
\* pattern with none, the groups of a pattern with several joined by a
\* space (the list extract_by_regex returns, " ".join of its non-empty
\* items); all stripped.
RECURSIVE extract_by_regex(_, _)
extract_by_regex(pattern, text) ==
  IF text = <<>> THEN NA
  ELSE IF PatMatches(pattern, Head(text))
       THEN CASE Groups(pattern) = 0 -> Str(Strip(WholeMatch(pattern, Head(text))))
              [] Groups(pattern) = 1 -> Str(Strip(Captured(pattern.class, Head(text))))
              [] OTHER ->
                   Str(Strip(MatchedLabel(pattern, Head(text))) \o <<" ">>
                       \o Strip(Captured(pattern.class, Head(text))))
       ELSE extract_by_regex(pattern, Tail(text))

\* store_re_used = profile.get("store_regex", default_store_regex)
StoreRegexUsed(profile, choice) ==
  IF profile.store_regex # NoPat THEN profile.store_regex ELSE default_store_re(choice)

\* The scalar columns try_parse inserts in merged: the header fields and
\* the site code, and the Store column of every normalized row.
TryParseHeader(profile, store, text) ==
  [PO_Number |-> extract_by_regex(profile.header_extract.PO_Number, text),
   Order_Date |->
     parse_date_safe(extract_by_regex(profile.header_extract.Order_Date, text)),
   Delivery_Date |->
     parse_date_safe(extract_by_regex(profile.header_extract.Delivery_Date, text)),
   SiteCode |-> store.site_code,
   Store |-> store.store_name]

HeaderAs(profile, choice, text) ==
  TryParseHeader(profile, extract_store(text, StoreRegexUsed(profile, choice)), text)

try_parse(reg, choice, text, tables) ==
  ParseAs(reg, PdfActiveVendor(reg, choice, text), text, tables)
  @@ HeaderAs(GetProfile(reg, PdfActiveVendor(reg, choice, text)), choice, text)

\* choose_format_by_vendor
choose_format_by_vendor(vendor) ==
  IF vendor = "WWNZ" THEN "CDDCorder" ELSE "DCorder"

\* The export template of one document: the sidebar's choice, or by the
\* Vendor of the first row (None when the frame is empty).
ExportFormat(export_format, p) ==
  IF export_format = "Auto by Vendor"
  THEN choose_format_by_vendor(IF p.rows = <<>> THEN None
                               ELSE IF p.active_vendor = None THEN "Unknown"
                               ELSE p.active_vendor)
  ELSE export_format

\* df["name"] = pd.Series(store_names).fillna(df.get("Store")): the Series
\* is numbered from 0 while the frame keeps the labels its rows had before
\* the noise rows were removed, and the assignment aligns the two, so a row
\* gets a name only when its label is below the number of rows.
NameColumn(p, st, i) ==
  IF p.rows[i].idx >= Len(p.rows) THEN NA
  ELSE IF st.name # NA THEN st.name ELSE p.Store

\* to_DCorder_template (with price) and to_CDDCorder_template (without);
\* st is what map_store_to_ids returns for the rows of the document.
ExportRows(fmt, p, st) ==
  [i \in 1..Len(p.rows) |->
     IF fmt = "DCorder"
     THEN [store_id |-> st.store_id, name |-> NameColumn(p, st, i),
           sales_id |-> p.PO_Number,
           order_date |-> IF p.Delivery_Date # NA THEN p.Delivery_Date ELSE p.Order_Date,
           item_id |-> p.rows[i].ItemNo, quantity |-> p.rows[i].Qty,
           price |-> p.rows[i].UnitPrice]
     ELSE [store_id |-> st.store_id, name |-> NameColumn(p, st, i),
           sales_id |-> p.PO_Number,
           order_date |-> IF p.Delivery_Date # NA THEN p.Delivery_Date ELSE p.Order_Date,
           item_id |-> p.rows[i].ItemNo, quantity |-> p.rows[i].Qty]]

\* What the loop does with the result p of try_parse.
PdfAppend(export_format, prev, p, df) ==
  IF p.raised
  THEN [diag |-> "ValueError", active_vendor |-> p.active_vendor,
        chosen_by_rows |-> None, body |-> prev.body, out |-> prev.out,
        appended |-> FALSE, raised |-> TRUE]
  ELSE [diag |-> IF p.active_vendor = None THEN "Undetected"
                 ELSE IF p.rows = <<>> THEN "NoRows" ELSE "OK",
        active_vendor |-> p.active_vendor, chosen_by_rows |-> None,
        body |-> Frame({"Item", "Qty", "Unit Price"}, p.rows),
        out |-> ExportRows(ExportFormat(export_format, p), p,
                           map_store_to_ids(p.SiteCode, p.Store, df)),
        appended |-> TRUE, raised |-> FALSE]

\* Main loop of pdf_to_csv.py: one iteration.  An exception of try_parse is
\* not caught; the frame of every document is appended to results.
PdfIter(reg, choice, export_format, prev, text, tables, df) ==
  PdfAppend(export_format, prev, try_parse(reg, choice, text, tables), df)

----------------------------------------------------------------------------
\* The script run: the sidebar's widgets, then the loop over the uploaded
\* PDFs.

VARIABLES
  app,              \* the script that runs
  vendor_choice,    \* sidebar: "Auto" or a vendor
  export_format,    \* sidebar of pdf_to_csv.py: the export template
  VENDOR_PROFILES,  \* the profile registry (pdf_to_csv.py can replace it)
  pc,               \* "sidebar", "loop", "done", or "raised" (uncaught exception)
  todo,             \* uploaded PDFs the loop has not reached yet
  text,             \* text of the PDF of the current iteration
  tables,           \* tables recovered from it (pdf_to_csv.py)
  loc,              \* the loop's variables after the current iteration
  results,          \* the list `results`
  store_map_df,     \* sidebar: the store mapping, NoFrame until one is loaded
  query,            \* the site code and the name the resolver was called with
  store,            \* what the resolver returned
  cell,             \* the cell normalize_numeric was given
  value,            \* what it returned
  again,            \* what it returned for str(value)
  date_s,           \* the value parse_date_safe was given
  date_iso          \* what it returned

vars == <<app, vendor_choice, export_format, VENDOR_PROFILES, pc, todo, text,
          tables, loc, results, store_map_df, query, store, cell, value, again,
          date_s, date_iso>>

\* The variables of the store resolver.
rvars == <<store_map_df, query, store>>

\* The variables of the numeric cleaner.
nvars == <<cell, value, again>>

\* The variables of the date parser.
dvars == <<date_s, date_iso>>

\* The variables of the loop over the PDFs.
lvars == <<vendor_choice, export_format, VENDOR_PROFILES, todo, text, tables,
          loc, results>>

Apps == {"app", "fixed_app", "app_v6", "pdf_to_csv"}

\* VENDOR_PROFILES of app.py, fixed_app.py and app_v6.py, never replaced.
AppProfiles ==
  [i \in 1..Len(SizeOrder) |->
     Profile(SizeOrder[i], detect_keywords(SizeOrder[i]), <<>>, "")]

InitLoc ==
  [diag |-> None, active_vendor |-> None, chosen_by_rows |-> None,
   body |-> NoFrame, out |-> <<>>, appended |-> FALSE, raised |-> FALSE]

InitRun(a) ==
  /\ app = a
  /\ vendor_choice = "Auto"
  /\ export_format = "Auto by Vendor"
  /\ VENDOR_PROFILES = IF a = "pdf_to_csv" THEN DefaultProfiles ELSE AppProfiles
  /\ pc = "sidebar"
  /\ todo = 0
  /\ text = <<>>
  /\ tables = <<>>
  /\ loc = InitLoc
  /\ results = <<>>
  /\ store_map_df = NoFrame
  /\ query = [site_code |-> NA, name |-> NA]
  /\ store = NoStore
  /\ cell = NA
  /\ value = Unset
  /\ again = Unset
  /\ date_s = NA
  /\ date_iso = Unset

\* st.selectbox("vendor", ["Auto", ...])
SelectVendor ==
  /\ pc = "sidebar"
  /\ \E v \in {"Auto"} \cup Vendors : vendor_choice' = v
  /\ UNCHANGED <<app, export_format, VENDOR_PROFILES, pc, todo, text, tables, loc, results, rvars, nvars, dvars>>

\* st.selectbox("export template", ...) of pdf_to_csv.py
SelectExportFormat ==
  /\ pc = "sidebar"
  /\ app = "pdf_to_csv"
  /\ \E f \in {"Auto by Vendor", "DCorder", "CDDCorder"} : export_format' = f
  /\ UNCHANGED <<app, vendor_choice, VENDOR_PROFILES, pc, todo, text, tables, loc, results, rvars, nvars, dvars>>

\* A profile with keywords only: no column_map, no line_regex.
BareProfile ==
  WithHeader(Profile("MyFoodBag", << <<"My", "Food", "Bag">> >>, <<>>, ""),
             [PO_Number |-> NoPat, Order_Date |-> NoPat, Delivery_Date |-> NoPat],
             NoPat)

\* The configurations a JSON file brings in a batch run.
BatchConfigs ==
  { <<WWNZProfile, FoodstuffsProfile, MyFoodBagProfile>>,
    <<FoodstuffsProfile>> }

\* A profile whose pattern of the order number has a group around the
\* label as well, (Order\s+Forecast\s+Number):\s*([0-9]+), and whose
\* pattern of the order date has no group, Date\s+of\s+Order:\s*[0-9/]+.
GroupsProfile ==
  WithHeader(
  Profile("Foodstuffs_NI", <<<<"Order", "Forecast">>>>, <<>>, "fs"),
  [PO_Number |-> PatG({Lab(<<"Order", "Forecast", "Number">>, "req")}, "digits", 2),
   Order_Date |-> PatG({Lab(<<"Date", "of", "Order">>, "req")}, "digslash", 0),
   Delivery_Date |-> NoPat],
  Pat({Lab(<<"Delivery", "To">>, "opt")}, "name"))

\* The configurations with header patterns of one, no and two groups.
FieldConfigs == { <<FoodstuffsProfile>>, <<GroupsProfile>> }

\* The configurations a JSON file can bring.
Configs == BatchConfigs \cup { <<FoodstuffsProfile, BareProfile>> }

\* Vendor config import of pdf_to_csv.py: VENDOR_PROFILES.clear(), then
\* update(json.loads(...)); when the file cannot be read or parsed the
\* exception is caught after the clear.
ImportConfig(Files) ==
  /\ pc = "sidebar"
  /\ app = "pdf_to_csv"
  /\ \/ VENDOR_PROFILES' = <<>>
     \/ \E cfg \in Files : VENDOR_PROFILES' = cfg
  /\ UNCHANGED <<app, vendor_choice, export_format, pc, todo, text, tables, loc, results, rvars, nvars, dvars>>

\* st.file_uploader(..., accept_multiple_files=True): n PDFs are uploaded
Upload(max) ==
  /\ pc = "sidebar"
  /\ \E n \in 1..max : todo' = n
  /\ pc' = "loop"
  /\ UNCHANGED <<app, vendor_choice, export_format, VENDOR_PROFILES, text, tables, loc, results, rvars, nvars, dvars>>

\* The iteration reached the call of the store resolver: app.py and
\* fixed_app.py call it for a document with rows, pdf_to_csv.py for every
\* row of the frame, app_v6.py never.
ResolverCalled(a, new) ==
  CASE a \in {"app", "fixed_app"} -> new.appended
    [] a = "pdf_to_csv" -> new.appended /\ new.body.rows # <<>>
    [] OTHER -> FALSE

\* What an iteration leaves: an uncaught exception ends the script run.
Iterate(t, tb, new) ==
  /\ text' = t
  /\ tables' = tb
  /\ loc' = new
  /\ results' = IF new.appended THEN Append(results, new.out) ELSE results
  /\ todo' = todo - 1
  /\ pc' = IF new.raised THEN "raised" ELSE "loop"
  /\ store_map_df' = IF ResolverCalled(app, new) THEN CallerFrame(store_map_df)
                     ELSE store_map_df
  /\ UNCHANGED <<app, vendor_choice, export_format, VENDOR_PROFILES, query, store, nvars, dvars>>

ProcessApp(Texts) ==
  /\ pc = "loop" /\ todo > 0
  /\ app \in {"app", "fixed_app"}
  /\ \E t \in Texts : Iterate(t, <<>>, AppIter(app, vendor_choice, loc, t, store_map_df))

ProcessV6(Texts) ==
  /\ pc = "loop" /\ todo > 0
  /\ app = "app_v6"
  /\ \E t \in Texts : Iterate(t, <<>>, V6Iter(vendor_choice, loc, t))

ProcessPdf(Texts, Tables) ==
  /\ pc = "loop" /\ todo > 0
  /\ app = "pdf_to_csv"
  /\ \E t \in Texts, tb \in Tables :
       Iterate(t, tb, PdfIter(VENDOR_PROFILES, vendor_choice, export_format, loc,
                              t, tb, store_map_df))

\* The loop is over: the results are merged and offered for download.
Finish ==
  /\ pc = "loop" /\ todo = 0
  /\ pc' = "done"
  /\ UNCHANGED <<app, vendor_choice, export_format, VENDOR_PROFILES, todo, text, tables, loc, results, rvars, nvars, dvars>>

\* store_map_df = pd.read_csv(store_map_file)
LoadStoreMap(Maps) ==
  /\ pc = "sidebar"
  /\ app # "app_v6"
  /\ \E m \in Maps : store_map_df' = LoadedMap(app, m)
  /\ UNCHANGED <<app, pc, lvars, query, store, nvars, dvars>>

\* The call of the resolver for the site code and the name read from a
\* document.
Resolve(Sites, Names) ==
  /\ pc = "sidebar"
  /\ app # "app_v6"
  /\ \E sc \in Sites, n \in Names :
       /\ query' = [site_code |-> sc, name |-> n]
       /\ store' = ResolveStore(app, sc, n, store_map_df)
  /\ store_map_df' = CallerFrame(store_map_df)
  /\ pc' = "done"
  /\ UNCHANGED <<app, lvars, nvars, dvars>>

\* normalize_numeric applied to a cell.
Normalize(Cells) ==
  /\ pc = "sidebar"
  /\ value = Unset
  /\ \E c \in Cells :
       /\ cell' = c
       /\ value' = normalize_numeric(c)
  /\ UNCHANGED <<app, pc, lvars, rvars, again, dvars>>

\* normalize_numeric applied to str() of the number it returned.
NormalizeAgain ==
  /\ pc = "sidebar"
  /\ value # Unset /\ value.t = "num"
  /\ again = Unset
  /\ again' = normalize_numeric(Str(FloatStr(value)))
  /\ UNCHANGED <<app, pc, lvars, rvars, cell, value, dvars>>

\* parse_date_safe applied to a value.
ParseDate(Dates) ==
  /\ pc = "sidebar"
  /\ date_iso = Unset
  /\ \E d \in Dates :
       /\ date_s' = d
       /\ date_iso' = parse_date_safe(d)
  /\ UNCHANGED <<app, pc, lvars, rvars, nvars>>

----------------------------------------------------------------------------
\* Bounds and inputs

\* Longest text, in lines, of a single-document run.
MaxLines == 3

\* Longest text, in lines, of a document of a batch run.
MaxBatchLines == 1

\* Most PDFs uploaded to a batch run.
MaxDocs == 2

\* Sequences over S of length at most n.
RECURSIVE SeqsUpTo(_, _)
SeqsUpTo(S, n) ==
  IF n = 0 THEN {<<>>}
  ELSE LET shorter == SeqsUpTo(S, n - 1)
       IN  shorter \cup {Append(q, e) : q \in shorter, e \in S}

KwW == Words(<<"Woolworths", "NZ">>)

KwF == Words(<<"order", "forecast">>)

KwM == Words(<<"My", "Food", "Bag">>)

Prose == Words(<<"Hello">>)

\* Lines of the documents given to app.py, fixed_app.py and app_v6.py.
AppLines ==
  { KwW, KwF, KwM, Blank,
    FsRow(<<"7", "1">>, <<"1", "0">>, <<"2", ".", "5", "0">>),
    FsRow(<<"7", "2">>, <<"0">>, <<"2", ".", "5", "0">>),
    WwHdr,
    WwRow(<<"8", "1">>, <<"1", "0">>, <<"1", "2">>, <<"5", "4", ".", "0", "0">>),
    WwRow(<<"8", "2">>, <<"1", "0">>, <<"1", "2">>, <<"0", ".", "0", "0">>),
    MfbHdr,
    MfbRow(<<"9", "1">>, TRUE, <<"2", "0">>, <<"3", ".", "8", "0">>),
    MfbRow(<<"9", "2">>, TRUE, <<".">>, <<"3", ".", "8", "0">>) }

AppTexts == SeqsUpTo(AppLines, MaxLines)

\* Lines of the documents of a batch run.
BatchLines ==
  { KwW, KwF, Prose, FsRow(<<"7", "1">>, <<"1", "0">>, <<"2", ".", "5", "0">>) }

BatchTexts == SeqsUpTo(BatchLines, MaxBatchLines)

\* A table with the column names of the WWNZ profile's column_map.
WwTable ==
  [columns |-> <<"ITEM DESCRIPTION", "ITEM NO", "ORD QTY", "PRICE EXCL">>,
   rows |-> << <<Str(<<"Ginger">>), Str(<<"8", "1">>), Str(<<"1", "0">>),
                 Str(<<"$", "5", "4", ".", "0", "0">>)>> >>]

BatchTables == {<<>>, <<WwTable>>}

\* Longest text, in lines, of a document given to pdf_to_csv.py alone.
MaxPdfLines == 2

\* Lines of the documents given to pdf_to_csv.py.
PdfLines ==
  { KwW, KwF, Words(<<"New", "Purchase", "Order">>),
    FsRow(<<"7", "1">>, <<"1", "0">>, <<"2", ".", "5", "0">>),
    FsRow(<<"7", "2">>, <<"0">>, <<"2", ".", "5", "0">>),
    WwRow(<<"8", "1">>, <<"1", "0">>, <<"1", "2">>, <<"5", "4", ".", "0", "0">>),
    MfbRow(<<"9", "2">>, TRUE, <<",">>, <<"3", ".", "8", "0">>) }

PdfTexts == SeqsUpTo(PdfLines, MaxPdfLines)

\* A table whose headers are aliases, with a total row and a zero quantity.
AliasTable ==
  [columns |-> <<"Item #", "Product Description", "Order Qty", "Price Per Ord. Unit">>,
   rows |-> << <<Str(<<"7", "1">>), Str(<<"Apples">>), Str(<<"0">>),
                 Str(<<"2", ".", "5", "0">>)>>,
               <<Str(<<>>), Str(<<"Total">>), Str(<<"1", "0">>),
                 Str(<<"2", "5", ".", "0", "0">>)>> >>]

\* A table with the standard column names whose second row has an empty
\* identifier cell.
IdTable ==
  [columns |-> <<"ItemNo", "Item", "Qty", "Unit Price">>,
   rows |-> << <<Str(<<"7", "1">>), Str(<<"Apples">>), Str(<<"1", "0">>),
                 Str(<<"2", ".", "5", "0">>)>>,
               <<Str(<<>>), Str(<<"Pears">>), Str(<<"5">>),
                 Str(<<"1", ".", "0", "0">>)>> >>]

PdfTables == {<<>>, <<WwTable>>, <<AliasTable>>, <<IdTable>>}

\* Longest name, in characters, the resolver is called with.
MaxNameLen == 3

\* Most rows of a store mapping.
MaxRows == 2

NameChars == {"A", "a", "b", " "}

StoreNames == {NA} \cup {Str(n) : n \in SeqsUpTo(NameChars, MaxNameLen)}

SiteCodes == {NA, Str(<<"1">>), Str(<<"a">>), Str(<<"A">>), Str(<<"1", " ">>)}

\* The rows a store mapping can hold, but for the store id.
MapRows ==
  {[site_code |-> sc, name |-> n] : sc \in {<<"1">>, <<"A">>, <<"a">>}, n \in {<<"A", "b">>, <<"b">>}}

\* The store ids, by the position of the row.
StoreId(i) == Str(<<"S", DigitChar(i)>>)

StoreMaps ==
  {Frame({"site_code", "name", "store_id"},
         [i \in 1..Len(m) |->
            [site_code |-> Str(m[i].site_code), name |-> Str(m[i].name),
             store_id |-> StoreId(i)]]) :
     m \in SeqsUpTo(MapRows, MaxRows)}

\* Most header lines of a document with a header.
MaxHeadLines == 3

\* The header lines of the documents with a header, in the order they have
\* in a document.  "Delivery Date: 03/09/25" is read by the patterns of
\* Foodstuffs_NI and of WWNZ; "Order Date 02/09/25", without a colon, is the
\* form the MyFoodBag pattern of pdf_to_csv.py reads.
HeadLines ==
  << Labelled(<<"Order", "Forecast", "Number">>, TRUE, <<" ", "5", "5", "5", "2", "1">>, <<>>),
     Labelled(<<"PRODUCE", "ORDER", "NUMBER">>, TRUE, <<" ", "7", "7">>, <<>>),
     Labelled(<<"Purchase", "No">>, TRUE, <<" ", "9">>, <<>>),
     Labelled(<<"Date", "of", "Order">>, TRUE,
              <<" ", "0", "1", "/", "0", "9", "/", "2", "5">>, <<>>),
     Labelled(<<"Order", "Date">>, TRUE,
              <<" ", "3", "1", "/", "0", "8", "/", "2", "0", "2", "5">>, <<>>),
     Labelled(<<"Order", "Date">>, FALSE,
              <<" ", "0", "2", "/", "0", "9", "/", "2", "5">>, <<>>),
     Labelled(<<"Delivery", "Date">>, TRUE,
              <<" ", "0", "3", "/", "0", "9", "/", "2", "5">>, <<>>),
     Labelled(<<"Delivery", "To">>, TRUE, <<" ", "A", "b", " ">>, <<>>),
     Labelled(<<"Deliver", "To">>, TRUE, <<" ", "1", "2", "3", "4">>, <<"A", "b">>) >>

\* The subsequences of q of at most n elements.
RECURSIVE SubSeqsUpTo(_, _)
SubSeqsUpTo(q, n) ==
  IF q = <<>> \/ n = 0 THEN {<<>>}
  ELSE SubSeqsUpTo(Tail(q), n)
       \cup {<<Head(q)>> \o r : r \in SubSeqsUpTo(Tail(q), n - 1)}

\* The item lines of the documents with a header: a valid Foodstuffs row,
\* a row with quantity 0 between two valid rows, a WWNZ table, a MyFoodBag
\* table, or nothing.
HeadBodies ==
  { <<>>,
    <<FsRow(<<"7", "1">>, <<"1", "0">>, <<"2", ".", "5", "0">>)>>,
    <<FsRow(<<"7", "3">>, <<"5">>, <<"1", ".", "0", "0">>),
      FsRow(<<"7", "2">>, <<"0">>, <<"2", ".", "5", "0">>),
      FsRow(<<"7", "1">>, <<"1", "0">>, <<"2", ".", "5", "0">>)>>,
    <<WwHdr, WwRow(<<"8", "1">>, <<"1", "0">>, <<"1", "2">>, <<"5", "4", ".", "0", "0">>)>>,
    <<MfbHdr, MfbRow(<<"9", "1">>, TRUE, <<"2", "0">>, <<"3", ".", "8", "0">>)>> }

HeadTexts == {h \o b : h \in SubSeqsUpTo(HeadLines, MaxHeadLines), b \in HeadBodies}

\* A table whose second row is a header row again.
NoiseTable ==
  [columns |-> <<"Item #", "Product Description", "Order Qty", "Price Per Ord. Unit">>,
   rows |-> << <<Str(<<"7", "1">>), Str(<<"Apples">>), Str(<<"1", "0">>),
                 Str(<<"2", ".", "5", "0">>)>>,
               <<Str(<<"Item">>), Str(<<"Description">>), Str(<<"Order Qty">>),
                 Str(<<"Price">>)>>,
               <<Str(<<"7", "3">>), Str(<<"Pears">>), Str(<<"5">>),
                 Str(<<"1", ".", "0", "0">>)>> >>]

HeadTables == {<<>>, <<NoiseTable>>}

\* The store mappings loaded for the documents with a header: one that
\* holds the destination "Ab" with the site code 1234, one that holds
\* neither.
HeadMaps ==
  { Frame({"site_code", "name", "store_id"},
          << [site_code |-> Str(<<"1", "2", "3", "4">>), name |-> Str(<<"A", "b">>),
              store_id |-> StoreId(1)] >>),
    Frame({"site_code", "name", "store_id"},
          << [site_code |-> Str(<<"9", "9", "9">>), name |-> Str(<<"C", "D">>),
              store_id |-> StoreId(2)] >>) }

\* A store mapping whose file names the columns "Site_Code" and " Region",
\* and one without the column store_id.
RawMap ==
  Frame({"Site_Code", "name", "store_id", " Region"},
        << [site_code |-> Str(<<"1", "2", "3", "4">>), name |-> Str(<<"A", "b">>),
            store_id |-> StoreId(1)] >>)

NoIdMap ==
  Frame({"site_code", "name"},
        << [site_code |-> Str(<<"1", "2", "3", "4">>), name |-> Str(<<"A", "b">>),
            store_id |-> NA] >>)

FrameMaps == HeadMaps \cup {RawMap, NoIdMap}

\* The documents of the runs with a store mapping: one without rows, and
\* Foodstuffs_NI and WWNZ orders with a destination.
FrameTexts ==
  { <<>>,
    <<KwF, HeadLines[8], FsRow(<<"7", "1">>, <<"1", "0">>, <<"2", ".", "5", "0">>)>>,
    <<KwF, FsRow(<<"7", "1">>, <<"1", "0">>, <<"2", ".", "5", "0">>)>>,
    <<KwW, HeadLines[9], WwHdr,
      WwRow(<<"8", "1">>, <<"1", "0">>, <<"1", "2">>, <<"5", "4", ".", "0", "0">>)>> }

\* Longest cell, in characters, of the cells made of any characters.
MaxCellLen == 3

\* Most groups of three digits after the first group of an amount.
MaxGroups == 1

\* Most fractional digits of a decimal cell.
MaxFracLen == 5

CellChars == {"$", ",", ".", " ", "-", "a", "0", "7"}

\* "$" + digits + ("," + digits)* + "." + 2 digits
RECURSIVE Grouped(_)
Grouped(n) ==
  IF n = 0 THEN {<<"1">>, <<"0">>, <<"1", "2">>}
  ELSE Grouped(n - 1)
       \cup {g \o <<",">> \o t :
               g \in Grouped(n - 1), t \in {<<"2", "3", "4">>, <<"0", "0", "0">>}}

Amounts ==
  {<<"$">> \o g \o <<".">> \o c :
     g \in Grouped(MaxGroups), c \in {<<"5", "6">>, <<"0", "0">>, <<"0", "5">>}}

\* digits "." digits
Decimals ==
  {i \o <<".">> \o f :
     i \in {<<"0">>, <<"1", "2">>}, f \in SeqsUpTo({"0", "1"}, MaxFracLen) \ {<<>>}}

\* The cells normalize_numeric is given: strings, and the missing value.
Cells ==
  {NA} \cup {Str(c) : c \in SeqsUpTo(CellChars, MaxCellLen) \cup Amounts \cup Decimals}

\* Most spaces before and after a date.
MaxPad == 1

\* n spaces
Spaces(n) == [i \in 1..n |-> " "]

\* The days, months and years of the dates in use: in and out of range,
\* with and without a leading zero, of four, two and three digits.
DayFields == {<<"1">>, <<"0", "9">>, <<"2", "9">>, <<"3", "1">>, <<" ", "5">>, <<"0">>}

MonthFields == {<<"2">>, <<"0", "9">>, <<"1", "2">>, <<"1", "3">>}

YearFields ==
  {<<"2", "0", "2", "5">>, <<"2", "0", "2", "4">>, <<"2", "5">>, <<"9", "9">>,
   <<"2", "0", "2">>}

\* The values parse_date_safe is given: None, "", blanks, a name, and the
\* dates day-month-year and year-month-day with "/" and with "-", bare or
\* with spaces around.
DateStrings ==
  {NA, Str(<<>>), Str(<<" ">>), Str(<<"A", "b">>), Str(<<" ", "A", "b">>)}
  \cup {Str(Spaces(a) \o f[1] \o <<sep>> \o m \o <<sep>> \o f[2] \o Spaces(b)) :
          a \in 0..MaxPad, b \in 0..MaxPad, sep \in {"/", "-"}, m \in MonthFields,
          f \in (DayFields \X YearFields) \cup (YearFields \X DayFields)}

\* The documents keyword detection is run on: lines with the keywords of
\* the vendors, prose and an item line.
KeywordLines ==
  { KwW, KwF, KwM, Prose, Words(<<"Order", "Forecast", "VENDOR", "COPY">>),
    FsRow(<<"7", "1">>, <<"1", "0">>, <<"2", ".", "5", "0">>) }

KeywordTexts == SeqsUpTo(KeywordLines, MaxLines)

\* Lines of the documents the item parsers of app.py and fixed_app.py are
\* given: item lines, table header lines, totals lines and prose.
ParserLines ==
  { Prose,
    FsRow(<<"7", "1">>, <<"1", "0">>, <<"2", ".", "5", "0">>),
    WwHdr, WwTot,
    WwRow(<<"8", "1">>, <<"1", "0">>, <<"1", "2">>, <<"5", "4", ".", "0", "0">>),
    MfbHdr, MfbTot,
    MfbRow(<<"9", "1">>, TRUE, <<"2", "0">>, <<"3", ".", "8", "0">>),
    MfbRow(<<"9", "2">>, TRUE, <<",">>, <<"3", ".", "8", "0">>) }

ParserTexts == SeqsUpTo(ParserLines, MaxLines)

----------------------------------------------------------------------------
\* Specifications

\* A batch run of any of the four scripts.
Init == \E a \in Apps : InitRun(a)

Next ==
  \/ SelectVendor
  \/ SelectExportFormat
  \/ ImportConfig(BatchConfigs)
  \/ Upload(MaxDocs)
  \/ ProcessApp(BatchTexts)
  \/ ProcessV6(BatchTexts)
  \/ ProcessPdf(BatchTexts, BatchTables)
  \/ Finish

Spec == Init /\ [][Next]_vars

\* A run of app.py, fixed_app.py or app_v6.py on one document.
InitDoc == \E a \in {"app", "fixed_app", "app_v6"} : InitRun(a)

NextDoc ==
  \/ SelectVendor
  \/ Upload(1)
  \/ ProcessApp(AppTexts)
  \/ ProcessV6(AppTexts)
  \/ Finish

SpecDoc == InitDoc /\ [][NextDoc]_vars

\* A run of pdf_to_csv.py on one document.
InitPdf == InitRun("pdf_to_csv")

NextPdf ==
  \/ SelectVendor
  \/ SelectExportFormat
  \/ ImportConfig(Configs)
  \/ Upload(1)
  \/ ProcessPdf(PdfTexts, PdfTables)
  \/ Finish

SpecPdf == InitPdf /\ [][NextPdf]_vars

\* The store resolver of app.py, fixed_app.py and pdf_to_csv.py on one
\* site code and one name.
InitResolve == \E a \in {"app", "fixed_app", "pdf_to_csv"} : InitRun(a)

NextResolve ==
  \/ LoadStoreMap(StoreMaps)
  \/ Resolve(SiteCodes, StoreNames)

SpecResolve == InitResolve /\ [][NextResolve]_vars

\* A run of any of the four scripts on one document with a header, with
\* or without a store mapping.
InitHead == \E a \in Apps : InitRun(a)

NextHead ==
  \/ SelectVendor
  \/ LoadStoreMap(HeadMaps)
  \/ Upload(1)
  \/ ProcessApp(HeadTexts)
  \/ ProcessV6(HeadTexts)
  \/ ProcessPdf(HeadTexts, HeadTables)
  \/ Finish

SpecHead == InitHead /\ [][NextHead]_vars

\* A run of app.py, fixed_app.py or pdf_to_csv.py on one document with a
\* header, pdf_to_csv.py with the profiles of a configuration file.
InitFields == \E a \in {"app", "fixed_app", "pdf_to_csv"} : InitRun(a)

NextFields ==
  \/ SelectVendor
  \/ ImportConfig(FieldConfigs)
  \/ Upload(1)
  \/ ProcessApp(HeadTexts)
  \/ ProcessPdf(HeadTexts, {<<>>})
  \/ Finish

SpecFields == InitFields /\ [][NextFields]_vars

\* A run of app.py or fixed_app.py on one document of item lines, header
\* lines and totals lines.
InitLines == \E a \in {"app", "fixed_app"} : InitRun(a)

NextLines ==
  \/ SelectVendor
  \/ Upload(1)
  \/ ProcessApp(ParserTexts)
  \/ Finish

SpecLines == InitLines /\ [][NextLines]_vars

\* Runs of app.py, fixed_app.py or pdf_to_csv.py with a store mapping: a
\* call of the resolver, or a batch of documents.
InitFrame == \E a \in {"app", "fixed_app", "pdf_to_csv"} : InitRun(a)

NextFrame ==
  \/ LoadStoreMap(FrameMaps)
  \/ Resolve(SiteCodes, StoreNames)
  \/ Upload(MaxDocs)
  \/ ProcessApp(FrameTexts)
  \/ ProcessPdf(FrameTexts, {<<>>})
  \/ Finish

SpecFrame == InitFrame /\ [][NextFrame]_vars

\* A run of app.py or fixed_app.py on one document of keyword lines.
InitDetect == \E a \in {"app", "fixed_app"} : InitRun(a)

NextDetect ==
  \/ SelectVendor
  \/ Upload(1)
  \/ ProcessApp(KeywordTexts)
  \/ Finish

SpecDetect == InitDetect /\ [][NextDetect]_vars

\* The date parser of app.py or pdf_to_csv.py on one value.
InitDate == \E a \in {"app", "pdf_to_csv"} : InitRun(a)

NextDate == ParseDate(DateStrings)

SpecDate == InitDate /\ [][NextDate]_vars

\* The numeric cleaner of any of the four scripts on one cell.
InitNorm == \E a \in Apps : InitRun(a)

NextNorm ==
  \/ Normalize(Cells)
  \/ NormalizeAgain

SpecNorm == InitNorm /\ [][NextNorm]_vars

----------------------------------------------------------------------------
\* Properties

\* The loop has run on the document held in text and tables.
Processed == pc \in {"loop", "raised", "done"} /\ loc.diag # None

\* The records the document of the current iteration added to the output.
Emitted == IF loc.appended THEN loc.out ELSE <<>>

NonEmptyId(x) == x # NA /\ x # Str(<<>>)

\* An output record with an item id, a quantity > 0 and, when the template
\* has a price, a price > 0.
ValidRecord(r) ==
  /\ NonEmptyId(r.item_id)
  /\ Positive(r.quantity)
  /\ "price" \in DOMAIN r => Positive(r.price)

\* C1: every emitted record has a non-empty item id, a quantity > 0 and a
\* price > 0; a row failing one of these never appears in the output.
C1_EmittedRecordsValid ==
  \A i \in 1..Len(results) : \A j \in 1..Len(results[i]) : ValidRecord(results[i][j])

\* The keywords the registry in force holds for a vendor.
KeywordsOf(v) == GetProfile(VENDOR_PROFILES, v).detect_keywords

\* C2: with no explicit vendor, a text that holds a WWNZ keyword and a
\* Foodstuffs keyword is detected as WWNZ, whatever the order of the
\* keywords and of the registry.
C2_WwnzBeforeFoodstuffs ==
  ( /\ Processed /\ vendor_choice = "Auto" /\ loc.diag # "ExtractFailed"
    /\ AnyKw(text, KeywordsOf("WWNZ"))
    /\ AnyKw(text, KeywordsOf("Foodstuffs_NI")) )
  => loc.active_vendor = "WWNZ"

\* The number of rows of the vendor's parser that pass validation.
ValidCount(v) == Len(SelectSeq(ParseFor(v, text).rows, ValidRow))

\* The content-based fallback of app.py and fixed_app.py has run: no
\* explicit vendor and no keyword hit.
InFallback ==
  /\ Processed /\ app \in {"app", "fixed_app"}
  /\ vendor_choice = "Auto" /\ loc.diag # "ExtractFailed"
  /\ \A v \in Vendors : keyword_hits(text)[v] = 0

\* Two vendors share the largest count, and it is not zero.
TiedLargest ==
  \E v, w \in Vendors :
     /\ v # w /\ ValidCount(v) = ValidCount(w) /\ ValidCount(v) > 0
     /\ \A u \in Vendors : ValidCount(u) <= ValidCount(v)

\* C3 (as amended): in the fallback a vendor is selected whenever some
\* count is not zero: the vendor of the largest count, the first of
\* Foodstuffs_NI, WWNZ, MyFoodBag when several share it, and its validated
\* rows are emitted; the result is Undetected only when every count is zero.
C3_FallbackFirstLargest ==
  InFallback =>
    IF \A v \in Vendors : ValidCount(v) = 0
    THEN loc.diag = "Undetected" /\ Emitted = <<>>
    ELSE \E i \in 1..Len(SizeOrder) :
           /\ loc.active_vendor = SizeOrder[i]
           /\ \A j \in 1..Len(SizeOrder) : ValidCount(SizeOrder[j]) <= ValidCount(SizeOrder[i])
           /\ \A j \in 1..(i - 1) : ValidCount(SizeOrder[j]) < ValidCount(SizeOrder[i])
           /\ loc.appended /\ Len(loc.out) = ValidCount(SizeOrder[i])

\* The fallback has selected a vendor although another shares its count.
C3_TieSelected == InFallback /\ TiedLargest /\ loc.diag = "OK"

\* C3 (as claimed): in the fallback a vendor is selected only if its count
\* is strictly larger than every other; a shared largest non-zero count
\* gives Undetected and no record.
C3_StrictlyLargestOrUndetected ==
  InFallback =>
    /\ loc.active_vendor # None =>
         \A w \in Vendors \ {loc.active_vendor} :
            ValidCount(w) < ValidCount(loc.active_vendor)
    /\ TiedLargest => loc.diag = "Undetected" /\ Emitted = <<>>

\* The item columns of the records.
Items(recs) ==
  [i \in 1..Len(recs) |->
     Row(recs[i].item_id, recs[i].quantity,
         IF "price" \in DOMAIN recs[i] THEN recs[i].price ELSE NA)]

\* C4: with no explicit vendor and no keyword hit, when exactly one vendor's
\* parser gives validated rows, that vendor is detected and its validated
\* rows, and no others, are emitted.
C4_SingleParserFallback ==
  \A v \in Vendors :
    ( /\ Processed /\ vendor_choice = "Auto" /\ loc.diag # "ExtractFailed"
      /\ \A u \in Vendors : ~AnyKw(text, detect_keywords(u))
      /\ ValidCount(v) > 0
      /\ \A w \in Vendors \ {v} : ValidCount(w) = 0 )
    => /\ loc.active_vendor = v
       /\ ~loc.raised
       /\ Items(Emitted) = validate_dataframe(ParseFor(v, text)).rows

\* An explicit vendor was chosen and the loop reached the vendor selection
\* for the document.
ExplicitSelected ==
  Processed /\ vendor_choice # "Auto" /\ loc.diag # "ExtractFailed"

\* C5 (as amended): with an explicit vendor, for every document that
\* reaches the vendor selection the active vendor is that choice when the
\* registry in force holds it and none otherwise; neither the keywords nor
\* the fallback change it.
C5_ExplicitVendorIfRegistered ==
  ExplicitSelected =>
    /\ loc.active_vendor =
         IF vendor_choice \in ProfileKeys(VENDOR_PROFILES) THEN vendor_choice ELSE None
    /\ loc.chosen_by_rows = None

\* An explicit vendor was kept on a text that holds another vendor's keyword.
C5_ChoiceOverKeywords ==
  /\ ExplicitSelected
  /\ PdfDetectVendor(VENDOR_PROFILES, text) \notin {None, vendor_choice}
  /\ loc.active_vendor = vendor_choice

\* C5 (as claimed): with an explicit vendor the active vendor equals the
\* choice for every text.
C5_ExplicitVendorVerbatim ==
  ExplicitSelected => loc.active_vendor = vendor_choice

\* C6: an empty document (no text, no tables) under automatic selection
\* gives no record and the undetected-vendor diagnostic, and no exception.
\* (The "no text could be extracted" diagnostic of app.py and fixed_app.py
\* is taken for one.)
C6_EmptyDocumentUndetected ==
  (Processed /\ vendor_choice = "Auto" /\ text = <<>> /\ tables = <<>>)
  => /\ ~loc.raised
     /\ Emitted = <<>>
     /\ loc.diag \in {"Undetected", "ExtractFailed"}

\* What one iteration of the running script gives for a document processed
\* alone, with the loop's variables as the script's start leaves them.
Alone(t, tb) ==
  CASE app \in {"app", "fixed_app"} ->
         AppIter(app, vendor_choice, InitLoc, t, store_map_df)
    [] app = "app_v6" -> V6Iter(vendor_choice, InitLoc, t)
    [] app = "pdf_to_csv" ->
         PdfIter(VENDOR_PROFILES, vendor_choice, export_format, InitLoc, t, tb,
                 store_map_df)

RecordsAlone(t, tb) ==
  IF Alone(t, tb).appended THEN Alone(t, tb).out ELSE <<>>

\* The records of all the frames of results.
RECURSIVE Flat(_)
Flat(frames) == IF frames = <<>> THEN <<>> ELSE Head(frames) \o Flat(Tail(frames))

\* C7: in a batch, every document adds to the output exactly the records it
\* gives when processed alone (none when it is undetected, has no rows or
\* its extraction fails), and the documents after it are still processed.
C7_BatchIsolation ==
  [][(pc = "loop" /\ todo > 0) =>
       /\ Flat(results') = Flat(results) \o RecordsAlone(text', tables')
       /\ ~(pc' = "raised" /\ todo' > 0)]_vars

\* No candidate row of the document passes validation.  The candidates of
\* pdf_to_csv.py are the rows try_parse returned, or the lines its pattern
\* matched when it raised; those of the other scripts are the rows of the
\* active vendor's parser.
NoValidCandidate ==
  IF app # "pdf_to_csv" THEN ValidCount(loc.active_vendor) = 0
  ELSE IF loc.raised
  THEN \A i \in 1..Len(text) :
         LineMatches(GetProfile(VENDOR_PROFILES, loc.active_vendor).line_regex, text[i])
         => ~Positive(normalize_numeric(Str(text[i].qty)))
  ELSE \A i \in 1..Len(loc.body.rows) :
         ~( /\ NonEmptyId(loc.body.rows[i].ItemNo)
            /\ Positive(loc.body.rows[i].Qty)
            /\ Positive(loc.body.rows[i].UnitPrice) )

\* C8: when a vendor is determined but no candidate row passes validation,
\* the document gives no record and no exception is raised.
C8_NoValidRowsNoRecords ==
  ( /\ Processed /\ loc.diag # "ExtractFailed" /\ loc.active_vendor # None
    /\ NoValidCandidate )
  => ~loc.raised /\ Emitted = <<>>

\* The resolver has been called with a mapping loaded.
Resolved == pc = "done" /\ store_map_df # NoFrame

\* The site code of a mapping row equals the site code of the query, case
\* and surrounding whitespace aside.
SiteMatches(r) ==
  /\ ~Falsy(query.site_code)
  /\ LowerSeq(Strip(r.site_code.s)) = LowerSeq(Strip(query.site_code.s))

\* C9: when the site code equals a mapping row's site code (case and
\* whitespace aside) the resolver returns that row's store id and name,
\* whatever the name is.
C9_SiteCodePrecedence ==
  (Resolved /\ \E i \in 1..Len(store_map_df.rows) : SiteMatches(store_map_df.rows[i]))
  => store = FirstRow(SelectSeq(store_map_df.rows, SiteMatches))

\* The key of the name of the query.
QueryKey == LowerSeq(Strip(query.name.s))

\* C10: with no site code, when no mapping name contains the name but the
\* name contains a mapping row's name, case aside, the resolver returns
\* that row's store id and name.
C10_NameContainsMappingName ==
  ( /\ Resolved /\ query.site_code = NA /\ ~Falsy(query.name) /\ QueryKey # <<>>
    /\ \A i \in 1..Len(store_map_df.rows) :
         ~Contains(LowerSeq(store_map_df.rows[i].name.s), QueryKey)
    /\ \E i \in 1..Len(store_map_df.rows) :
         Contains(QueryKey, LowerSeq(store_map_df.rows[i].name.s)) )
  => \E i \in 1..Len(store_map_df.rows) :
       /\ Contains(QueryKey, LowerSeq(store_map_df.rows[i].name.s))
       /\ store = [store_id |-> store_map_df.rows[i].store_id,
                   name |-> store_map_df.rows[i].name]


\* What try_parse gives for the document of the current iteration.
Parsed == try_parse(VENDOR_PROFILES, vendor_choice, text, tables)

\* The destination the running script extracted from the header of the
\* document: app.py and fixed_app.py extract a name only.
Destination ==
  IF app = "pdf_to_csv"
  THEN [site_code |-> Parsed.SiteCode, name |-> Parsed.Store]
  ELSE [site_code |-> NA, name |-> HeaderOf(loc.active_vendor, text).name_txt]

\* What the store resolver of the running script gives for it.
StoreOfDocument ==
  IF app = "pdf_to_csv"
  THEN map_store_to_ids(Destination.site_code, Destination.name, store_map_df)
  ELSE store_lookup(Destination.name, store_map_df)

\* The document gave records and its destination is in no row of the store
\* mapping, or no mapping was loaded.
Unresolved ==
  /\ Processed /\ app \in {"app", "fixed_app", "pdf_to_csv"}
  /\ Emitted # <<>>
  /\ StoreOfDocument = NoStore

\* C11: when the destination of a document matches no row of the store
\* mapping, or no mapping is loaded, every record of the document carries a
\* null store id and, as its store name, the destination name extracted
\* from the document.
C11_UnresolvedKeepsExtractedName ==
  Unresolved =>
    \A i \in 1..Len(Emitted) :
       /\ Emitted[i].store_id = NA
       /\ Emitted[i].name = Destination.name


\* The header patterns of the active vendor in the running script.
ActivePatterns ==
  IF app = "pdf_to_csv"
  THEN GetProfile(VENDOR_PROFILES, loc.active_vendor).header_extract
  ELSE header_extract(loc.active_vendor)

\* The delivery date and the order date the patterns of the active vendor
\* find in the document, null when the pattern is missing or matches nothing.
DeliveryDateOf(t) == parse_date_safe(extract(ActivePatterns.Delivery_Date, t))

OrderDateOf(t) == parse_date_safe(extract(ActivePatterns.Order_Date, t))

\* The document of the current iteration gave records for a vendor.
EmittedForVendor == Processed /\ loc.active_vendor # None /\ Emitted # <<>>

\* C12: the order date of every record is the delivery date when the
\* document has one, else the order date when the document has one, else
\* null; a document with an order date and no delivery date gets the order
\* date also when the vendor's profile has a delivery-date pattern.
C12_DeliveryDateElseOrderDate ==
  EmittedForVendor =>
    \A i \in 1..Len(Emitted) :
       Emitted[i].order_date =
         IF DeliveryDateOf(text) # NA THEN DeliveryDateOf(text) ELSE OrderDateOf(text)


\* The header and store fields of a record.
HeaderFields(r) ==
  [store_id |-> r.store_id, name |-> r.name, sales_id |-> r.sales_id,
   order_date |-> r.order_date]

\* A vendor was determined for the document of the current iteration and
\* the iteration ended without an exception.
VendorDetermined ==
  /\ Processed /\ app \in {"app", "fixed_app", "pdf_to_csv"}
  /\ loc.active_vendor # None /\ ~loc.raised

\* C13: a document with a determined vendor gives exactly one record per
\* valid line item, in the order of the document, and every record carries
\* the same order identifier, order date and store fields, the order
\* identifier being the one of the document's header.
C13_OneRecordPerValidItem ==
  VendorDetermined =>
    /\ \A i \in 1..Len(Emitted) : ValidRecord(Emitted[i])
    /\ app \in {"app", "fixed_app"} =>
         Items(Emitted) = validate_dataframe(ParseFor(loc.active_vendor, text)).rows
    /\ \A i, j \in 1..Len(Emitted) : HeaderFields(Emitted[i]) = HeaderFields(Emitted[j])
    /\ \A i \in 1..Len(Emitted) :
         Emitted[i].sales_id = extract(ActivePatterns.PO_Number, text)


\* normalize_numeric has run on the cell.
Normalized == value # Unset

\* The cell is "$" + digits + ("," + digits)* + "." + 2 digits.
IsAmount == cell.t = "str" /\ cell.s \in Amounts

\* C14: for a string "$" + digits + ("," + digits)* + "." + 2 digits the
\* result is the decimal written by the string without its "$" and ",".
C14_AmountIsItsDecimal ==
  (Normalized /\ IsAmount) => value = ParseToken(RemoveChars(cell.s, {"$", ","}))

\* "$1,234.56" was given and 1234.56 came back.
C14_Example ==
  /\ Normalized
  /\ cell = Str(<<"$", "1", ",", "2", "3", "4", ".", "5", "6">>)
  /\ value = Canon(123456, 2)

\* The cell holds no digit: the missing value, or a string without one.
NoDigit == cell.t = "na" \/ (cell.t = "str" /\ \A i \in 1..Len(cell.s) : ~IsDigit(cell.s[i]))

\* C15: for a cell without a digit (the empty string, null, only currency
\* symbols, commas or whitespace) the result is invalid (NaN), never zero.
C15_NoDigitIsInvalid ==
  (Normalized /\ NoDigit) => value = NA

\* A cell of currency symbols, commas and whitespace only was given.
C15_SymbolsOnly ==
  /\ Normalized
  /\ cell = Str(<<"$", ",", " ">>)
  /\ value = NA

\* C16: when normalize_numeric gives a number, applying it to str() of that
\* number gives the same number.
C16_IdempotentOnStr ==
  (Normalized /\ value.t = "num" /\ again # Unset) => again = value


\* A row with an item id and a quantity > 0, whatever its price.
ValidWithoutPrice(r) ==
  /\ r.item_id # NA /\ r.item_id # Str(<<>>)
  /\ Positive(normalize_numeric(r.quantity))

\* The item id and the cleaned quantity of rows or of records.
ItemQty(rows) ==
  [i \in 1..Len(rows) |->
     [item_id |-> rows[i].item_id, quantity |-> normalize_numeric(rows[i].quantity)]]

\* C17: for WWNZ, whose template has no price, the price condition of the
\* validation is skipped: every row of the document with an item id and a
\* quantity > 0 gives a record, whatever its price.
C17_WwnzPriceNotRequired ==
  ( /\ Processed /\ app \in {"app", "fixed_app"}
    /\ loc.active_vendor = "WWNZ" /\ ~loc.raised )
  => ItemQty(Emitted) = ItemQty(SelectSeq(ParseFor("WWNZ", text).rows, ValidWithoutPrice))


\* The vendors whose template has a price.
PriceRequired(v) == v \in {"Foodstuffs_NI", "MyFoodBag"}

\* C18: a record carries a unit price field if and only if the template of
\* the document's vendor requires a price: the records of WWNZ have none,
\* the records of Foodstuffs_NI and MyFoodBag have one.
C18_PriceFieldIffRequired ==
  EmittedForVendor =>
    \A i \in 1..Len(Emitted) :
       ("price" \in DOMAIN Emitted[i]) <=> PriceRequired(loc.active_vendor)


\* C19: a reload of the registry is all-or-nothing: after an import the
\* registry is the previous one or the complete new configuration; an
\* import that cannot be read leaves the registry as it was, so that no
\* document is processed with an empty registry.
C19_ReloadAllOrNothing ==
  [][VENDOR_PROFILES' \in {VENDOR_PROFILES} \cup Configs]_vars

\* A profile with a structured-table strategy (a column_map) or a
\* line-pattern strategy (a line_regex).
HasStrategy(profile) == profile.column_map # <<>> \/ profile.line_regex # ""

\* C20: every profile of the registry of pdf_to_csv.py has at least one
\* line-item extraction strategy, after any sequence of imports: a
\* configuration with a profile that has none is never taken.
C20_EveryProfileHasStrategy ==
  app = "pdf_to_csv" =>
    \A i \in 1..Len(VENDOR_PROFILES) : HasStrategy(VENDOR_PROFILES[i])


\* The profile try_parse uses for the document of the current iteration.
ActiveProfile == GetProfile(VENDOR_PROFILES, loc.active_vendor)

\* A row try_parse returns that passes validation.
ValidItemRow(r) ==
  NonEmptyId(r.ItemNo) /\ Positive(r.Qty) /\ Positive(r.UnitPrice)

\* What each strategy gives for the document of the current iteration.
TableStrategyRows == MergedRows(NormalizeTables(tables, ActiveProfile.column_map))

LineStrategyRows ==
  MergedRows(PdfLineRows(loc.active_vendor, ActiveProfile.line_regex, text))

\* try_parse has returned for the document of the current iteration.
TryParseReturned == Processed /\ app = "pdf_to_csv" /\ ~loc.raised

\* C21: the extractor returns the rows of the structured-table strategy
\* when it gives at least one validated row, and otherwise (no table, empty
\* tables, or only rows that fail validation) the rows of the line-pattern
\* strategy run over the text.
C21_LinePatternWhenNoValidTableRow ==
  TryParseReturned =>
    loc.body.rows =
      IF \E i \in 1..Len(TableStrategyRows) : ValidItemRow(TableStrategyRows[i])
      THEN TableStrategyRows
      ELSE LineStrategyRows


\* The columns of table t whose name the active profile's column_map gives
\* the standard name dst.
AliasColumns(t, dst) ==
  {j \in 1..Len(t.columns) :
     \E k \in 1..Len(ActiveProfile.column_map) :
        /\ ActiveProfile.column_map[k][1] = t.columns[j]
        /\ ActiveProfile.column_map[k][2] = dst}

\* The header row of the only table of the document uses the alias names
\* of the active profile for the identifier, the quantity and the price.
AliasedTable ==
  /\ TryParseReturned /\ Len(tables) = 1
  /\ \A dst \in {"ItemNo", "Qty", "Unit Price"} :
        Cardinality(AliasColumns(tables[1], dst)) = 1

\* The cell of row i of the table in its column aliased to dst.
AliasCell(i, dst) ==
  tables[1].rows[i][CHOOSE j \in AliasColumns(tables[1], dst) : TRUE]

\* C22: for a table whose header row uses the alias names of the profile,
\* the identifier, the quantity and the price of every extracted row are
\* those of the aliased columns of one row of the table.
C22_AliasedColumnsFirst ==
  AliasedTable =>
    \A n \in 1..Len(loc.body.rows) :
       \E i \in 1..Len(tables[1].rows) :
          /\ loc.body.rows[n].ItemNo = Str(Strip(CellStr(AliasCell(i, "ItemNo"))))
          /\ loc.body.rows[n].Qty = normalize_numeric(AliasCell(i, "Qty"))
          /\ loc.body.rows[n].UnitPrice = normalize_numeric(AliasCell(i, "Unit Price"))


\* The line matches the item pattern of the vendor, every required group
\* (item identifier, quantity, price) present.
MatchesVendor(v, ln) ==
  CASE v = "Foodstuffs_NI" -> ln.k = "fs"
    [] v = "WWNZ" -> ln.k = "ww"
    [] v = "MyFoodBag" ->
         /\ ln.k = "mfb" /\ ln.ten /\ ln.item # <<>>
         /\ DigitsAndDots(ln.qty) # <<>> /\ DigitsAndDots(ln.price) # <<>>
    [] OTHER -> FALSE

\* The candidate row of a matching line.
CandidateRow(v, ln) ==
  CASE v = "Foodstuffs_NI" ->
         Row(Str(ln.item), Str(ln.qty), Str(RemoveChars(ln.price, {","})))
    [] v = "WWNZ" -> Row(Str(ln.item), Str(ln.n8), Str(ln.price))
    [] v = "MyFoodBag" ->
         Row(Str(ln.item), Str(DigitsAndDots(ln.qty)), Str(DigitsAndDots(ln.price)))

\* The candidate rows of the matching lines of a text, in its order.
RECURSIVE CandidateRows(_, _)
CandidateRows(v, t) ==
  IF t = <<>> THEN <<>>
  ELSE (IF MatchesVendor(v, Head(t)) THEN <<CandidateRow(v, Head(t))>> ELSE <<>>)
       \o CandidateRows(v, Tail(t))

\* The lines of t before the first line of one of the kinds.
RECURSIVE Before(_, _)
Before(t, kinds) ==
  IF t = <<>> \/ Head(t).k \in kinds THEN <<>>
  ELSE <<Head(t)>> \o Before(Tail(t), kinds)

\* The lines of t after the first line of the kind.
RECURSIVE AfterFirst(_, _)
AfterFirst(t, kind) ==
  IF t = <<>> THEN <<>>
  ELSE IF Head(t).k = kind THEN Tail(t) ELSE AfterFirst(Tail(t), kind)

\* The lines a vendor's parser scans for items: the whole text for
\* Foodstuffs_NI; for WWNZ and MyFoodBag the lines after the first table
\* header line and before the first totals line that follows it (for
\* MyFoodBag a further header line counts as a totals line).
ScanWindow(v, t) ==
  CASE v = "Foodstuffs_NI" -> t
    [] v = "WWNZ" -> Before(AfterFirst(t, "wwhdr"), {"wwtot"})
    [] v = "MyFoodBag" -> Before(AfterFirst(t, "mfbhdr"), {"mfbtot", "mfbhdr"})
    [] OTHER -> <<>>

\* The item parser of a vendor has run on the document.
Parsed4Vendor ==
  /\ Processed /\ app \in {"app", "fixed_app"}
  /\ loc.active_vendor # None /\ loc.diag # "ExtractFailed"

DestinationPattern ==
  IF app = "pdf_to_csv" THEN StoreRegexUsed(ActiveProfile, vendor_choice)
  ELSE store_regex(loc.active_vendor)

\* The first line of t the pattern matches; t holds one.
RECURSIVE FirstMatch(_, _)
FirstMatch(pattern, t) ==
  IF PatMatches(pattern, Head(t)) THEN Head(t) ELSE FirstMatch(pattern, Tail(t))

\* The destination pattern of the active vendor matches in the document.
DestinationFound ==
  /\ Processed /\ app \in {"app", "fixed_app", "pdf_to_csv"}
  /\ loc.active_vendor # None
  /\ \E i \in 1..Len(text) : PatMatches(DestinationPattern, text[i])

\* C24: when the destination pattern matches with two groups, the first a
\* token of 3 to 6 digits, the site code is the first group and the store
\* name is the second; when the pattern has one group, the store name is
\* that group and the site code is null.
C24_SiteCodeAndName ==
  DestinationFound =>
    Destination =
      IF DestinationPattern.class = "site"
      THEN [site_code |-> Str(Captured("site", FirstMatch(DestinationPattern, text))),
            name |-> Str(Strip(FirstMatch(DestinationPattern, text).below))]
      ELSE [site_code |-> NA,
            name |-> Str(Strip(Captured(DestinationPattern.class,
                                        FirstMatch(DestinationPattern, text))))]


\* The field the claim gives for a pattern: null without a match, the
\* group of the first match for a pattern with exactly one group, else the
\* whole match.
FieldAsClaimed(pattern, t) ==
  IF \A i \in 1..Len(t) : ~PatMatches(pattern, t[i]) THEN NA
  ELSE Str(Strip(IF Groups(pattern) = 1
                 THEN Captured(pattern.class, FirstMatch(pattern, t))
                 ELSE WholeMatch(pattern, FirstMatch(pattern, t))))

\* The header of the document was read with the patterns of a vendor.
HeaderRead ==
  /\ Processed /\ app \in {"app", "fixed_app", "pdf_to_csv"}
  /\ loc.active_vendor # None /\ ~loc.raised

\* The order number the running script extracted from the document.
OrderNumberOfDocument ==
  IF app = "pdf_to_csv" THEN Parsed.PO_Number
  ELSE HeaderOf(loc.active_vendor, text).sales_id

\* C25: a header field is taken from the first match of its pattern: the
\* group's value when the pattern has exactly one group, the whole match
\* when it has none or several, null when nothing matches or the text is
\* empty.
C25_GroupElseWholeMatch ==
  HeaderRead =>
    /\ OrderNumberOfDocument = FieldAsClaimed(ActivePatterns.PO_Number, text)
    /\ app = "pdf_to_csv" =>
         Parsed.Order_Date
           = parse_date_safe(FieldAsClaimed(ActivePatterns.Order_Date, text))


\* The formats that parse the stripped string, by their place in the order
\* D/M/Y, D/M/YY, Y/M/D, D-M-Y, Y-M-D.
ParsingFormats(x) ==
  {i \in 1..Len(DateFormats) :
     StrpDate(Strip(x.s), DateFormats[i][1], DateFormats[i][2]) # NA}

FirstParsing(x) == CHOOSE i \in ParsingFormats(x) : \A j \in ParsingFormats(x) : i <= j

\* YYYY-MM-DD
IsIso(d) ==
  /\ d # NA /\ Len(d.s) = 10
  /\ \A i \in 1..10 : IF i \in {5, 8} THEN d.s[i] = "-" ELSE IsDigit(d.s[i])

\* C26: parse_date_safe returns null for a null or empty value, else the
\* ISO date of the first of the formats D/M/Y, D/M/YY, Y/M/D, D-M-Y, Y-M-D
\* that parses the string, else the string it was given, unchanged.
C26_FirstFormatElseOriginal ==
  date_iso # Unset =>
    IF Falsy(date_s) THEN date_iso = NA
    ELSE IF ParsingFormats(date_s) = {} THEN date_iso = date_s
    ELSE /\ date_iso = StrpDate(Strip(date_s.s), DateFormats[FirstParsing(date_s)][1],
                                DateFormats[FirstParsing(date_s)][2])
         /\ IsIso(date_iso)

\* A date with a year of two digits and spaces around it was parsed by the
\* second format.
C26_TwoDigitYear ==
  /\ date_s = Str(<<" ", "1", "/", "2", "/", "2", "5", " ">>)
  /\ date_iso = Str(<<"2", "0", "2", "5", "-", "0", "2", "-", "0", "1">>)


\* try_parse returned rows of the structured-table strategy.
TableStrategyUsed ==
  TryParseReturned /\ NormalizeTables(tables, ActiveProfile.column_map) # <<>>

\* The row has an empty description, a description that spells a total,
\* or an identifier cell that is empty.
NonDataRow(r) ==
  \/ Strip(r.Item.s) = <<>>
  \/ IsTotal(r.Item.s)
  \/ (r.ItemNo # NA /\ Strip(r.ItemNo.s) = <<>>)

\* C27: in the structured-table strategy no row with an empty identifier
\* cell, an empty description cell or a description that spells "total" is
\* among the extracted line items, and no record comes from such a row.
C27_NonDataRowsDiscarded ==
  TableStrategyUsed =>
    /\ \A n \in 1..Len(loc.body.rows) : ~NonDataRow(loc.body.rows[n])
    /\ \A n \in 1..Len(Emitted) :
         Emitted[n].item_id # NA => Strip(Emitted[n].item_id.s) # <<>>


\* A step that calls the resolver alone, and a step of the loop over the
\* documents.
ResolveStep == pc = "sidebar" /\ pc' = "done"

DocumentStep == pc = "loop" /\ todo' = todo - 1

\* C28: a call of the store resolver and the run of a document leave the
\* store mapping as it was loaded: its rows, its cells and its column
\* names.
C28_StoreMapUnchanged ==
  [][(ResolveStep \/ DocumentStep) => store_map_df' = store_map_df]_vars

\* A document was given the store of a mapping whose column names are not
\* in lower case, and the mapping is as it was loaded.
C28_ResolvedWithRawColumns ==
  /\ Processed /\ app = "app"
  /\ store_map_df = RawMap
  /\ Emitted # <<>> /\ Emitted[1].store_id = StoreId(1)


\* The matching rules of the name passes: the mapping name contains the
\* name of the query, or the name of the query contains the mapping name,
\* case and surrounding whitespace aside.
NameInRow(r) == ~Falsy(query.name) /\ Contains(LowerSeq(r.name.s), QueryKey)

RowInName(r) ==
  /\ ~Falsy(query.name) /\ r.name.s # <<>>
  /\ Contains(QueryKey, LowerSeq(r.name.s))

HitsComputed ==
  Processed /\ app \in {"app", "fixed_app"} /\ loc.diag # "ExtractFailed"

\* C30: detect_vendor returns no vendor exactly when keyword_hits counts
\* zero for the three vendors, and a vendor it returns has a count above
\* zero; so has the active vendor of a document under Auto when the
\* fallback did not choose it.
C30_DetectionAgreesWithHits ==
  HitsComputed =>
    /\ detect_vendor(text) = None <=> \A v \in Vendors : keyword_hits(text)[v] = 0
    /\ detect_vendor(text) # None => keyword_hits(text)[detect_vendor(text)] > 0
    /\ (vendor_choice = "Auto" /\ loc.chosen_by_rows = None /\ loc.active_vendor # None)
         => keyword_hits(text)[loc.active_vendor] > 0

\* A document detected as MyFoodBag by its keyword alone.
C30_DetectedByKeyword ==
  /\ HitsComputed /\ vendor_choice = "Auto"
  /\ loc.active_vendor = "MyFoodBag" /\ loc.chosen_by_rows = None
  /\ keyword_hits(text)["MyFoodBag"] > 0
  /\ keyword_hits(text)["WWNZ"] = 0 /\ keyword_hits(text)["Foodstuffs_NI"] = 0

====
